---- MODULE Spec2Model ----
(***************************************************************************)
(* A model of the symtypes corpus of suse-kabi-tools (src/src/sym/mod.rs): *)
(* the parallel loader, the consolidated writer, the comparator and the    *)
(* pretty printer, and of the diff they report with (src/src/diff/mod.rs). *)
(*                                                                         *)
(* Text is modelled at the level of characters: a word is a sequence of    *)
(* one-character strings, a line is a sequence of characters in which      *)
(* words are separated by blanks, a file is a sequence of lines.           *)
(* Indices (file_idx, variant_idx, work_idx, line_idx) are 0-based as in   *)
(* the source; the element with index i of a Vec v is v[i + 1].            *)
(***************************************************************************)
EXTENDS Integers, Sequences, FiniteSets, TLC

(***************************************************************************)
(* Bounds of the model.                                                    *)
(***************************************************************************)
\* The largest number of files in the work list of a load.
MaxFiles == 2
\* The number of load workers (num_workers of load_symfiles).
NumWorkers == 2
\* The largest number of files loaded into each corpus of a comparison.
MaxCmpFiles == 2
\* The number of compare workers (num_workers of compare_with).
NumCmpWorkers == 2
\* The largest number of lines of each list handed to myers.
MaxLines == 4
\* The largest number of lines of the first list handed to unified.
MaxDiffLines == 15
\* The largest number of lines of that list that the second list changes.
MaxChanges == 2
\* The largest number of tokens of a type handed to pretty_format_type.
MaxTokens == 5
\* The most arguments of a command line, after the program name.
MaxArgs == 4

(***************************************************************************)
(* Characters and their order (the byte order of the ASCII encoding, which *)
(* is what the Ord of str, String and PathBuf compares by).                *)
(***************************************************************************)
CharCode(c) ==
    CASE c = " " -> 32 [] c = "#" -> 35
      [] c = "0" -> 48 [] c = "1" -> 49 [] c = "2" -> 50 [] c = "3" -> 51
      [] c = "4" -> 52 [] c = "5" -> 53 [] c = "6" -> 54 [] c = "7" -> 55
      [] c = "8" -> 56 [] c = "9" -> 57
      [] c = "@" -> 64 [] c = "F" -> 70
      [] c = "a" -> 97 [] c = "b" -> 98 [] c = "e" -> 101 [] c = "f" -> 102
      [] c = "g" -> 103 [] c = "i" -> 105 [] c = "j" -> 106 [] c = "p" -> 112
      [] c = "q" -> 113 [] c = "r" -> 114 [] c = "s" -> 115

CharLess(c, d) == CharCode(c) < CharCode(d)

Min(a, b) == IF a <= b THEN a ELSE b

\* The lexicographic order of two sequences under the element order less.
SeqLess(a, b, less(_, _)) ==
    \E i \in 1..(Min(Len(a), Len(b)) + 1) :
        /\ \A j \in 1..(i - 1) : a[j] = b[j]
        /\ \/ i > Len(a) /\ i <= Len(b)
           \/ i <= Len(a) /\ i <= Len(b) /\ less(a[i], b[i])

\* Ordering of Strings.
StrLess(a, b) == SeqLess(a, b, CharLess)

\* Token: the derived Ord puts every TypeRef before every Atom, then
\* compares the strings.
TokenLess(t, u) ==
    \/ t.typeref /\ ~u.typeref
    \/ t.typeref = u.typeref /\ StrLess(t.text, u.text)

\* Tokens (Vec<Token>): the lexicographic order of the vectors.
TokensLess(a, b) == SeqLess(a, b, TokenLess)

\* slice::sort / sort_by_key: a stable sort of the sequence s.
StableSort(s, less(_, _)) ==
    LET pos(i) == 1 + Cardinality({j \in 1..Len(s) :
                        \/ less(s[j], s[i])
                        \/ ~less(s[i], s[j]) /\ j < i})
    IN  [p \in 1..Len(s) |-> s[CHOOSE i \in 1..Len(s) : pos(i) = p]]

\* The elements of a set as a sequence sorted by a strict total order.
SortSet(S, less(_, _)) ==
    LET pos(x) == 1 + Cardinality({y \in S : less(y, x)})
    IN  [p \in 1..Cardinality(S) |-> CHOOSE x \in S : pos(x) = p]

(***************************************************************************)
(* HashMap: a function with a finite domain.                               *)
(***************************************************************************)
EmptyMap == << >>

Put(m, k, v) == [x \in (DOMAIN m) \cup {k} |-> IF x = k THEN v ELSE m[x]]

Range(s) == {s[i] : i \in DOMAIN s}

(***************************************************************************)
(* Words, tokens and names.                                                *)
(***************************************************************************)
\* Token::as_str
as_str(token) == token.text

\* words_into_tokens, for one word: a TypeRef iff the second character is #.
WordToken(word) ==
    IF Len(word) >= 2 /\ word[2] = "#"
    THEN [typeref |-> TRUE, text |-> word]
    ELSE [typeref |-> FALSE, text |-> word]

words_into_tokens(words) == [i \in 1..Len(words) |-> WordToken(words[i])]

is_export(name) == IF Len(name) >= 2 THEN name[2] # "#" ELSE TRUE

\* str::rfind('@'): the last position of @, or 0 when there is none.
RFindAt(name) ==
    IF \E i \in 1..Len(name) : name[i] = "@"
    THEN CHOOSE i \in 1..Len(name) :
            name[i] = "@" /\ \A j \in (i + 1)..Len(name) : name[j] # "@"
    ELSE 0

\* A faulty split_type_name that never finds a suffix.
split_type_name_whole(type_name) == <<type_name, << >> >>

\* split_type_name: <<base name, variant name>>.
split_type_name(type_name) ==
    LET i == RFindAt(type_name)
    IN  IF i > 0
        THEN <<SubSeq(type_name, 1, i - 1), SubSeq(type_name, i + 1, Len(type_name))>>
        ELSE <<type_name, << >> >>

starts_with(s, prefix) ==
    Len(s) >= Len(prefix) /\ SubSeq(s, 1, Len(prefix)) = prefix

\* str::split_ascii_whitespace: the maximal runs of non-blank characters.
RECURSIVE SplitFrom(_, _, _, _)
SplitFrom(line, i, cur, acc) ==
    IF i > Len(line)
    THEN IF cur = << >> THEN acc ELSE Append(acc, cur)
    ELSE IF line[i] = " "
         THEN SplitFrom(line, i + 1, << >>, IF cur = << >> THEN acc ELSE Append(acc, cur))
         ELSE SplitFrom(line, i + 1, Append(cur, line[i]), acc)

split_ascii_whitespace(line) == SplitFrom(line, 1, << >>, << >>)

\* The decimal form of a usize, as written by "{}".
Digit(d) ==
    CASE d = 0 -> "0" [] d = 1 -> "1" [] d = 2 -> "2" [] d = 3 -> "3"
      [] d = 4 -> "4" [] d = 5 -> "5" [] d = 6 -> "6" [] d = 7 -> "7"
      [] d = 8 -> "8" [] d = 9 -> "9"

RECURSIVE Decimal(_)
Decimal(n) == IF n < 10 THEN <<Digit(n)>> ELSE Append(Decimal(n \div 10), Digit(n % 10))

(***************************************************************************)
(* Results.  Ok, a parse error (crate::Error::Parse) with the parts of its *)
(* message, or a panic (a failed assert, unwrap or index).  line is the    *)
(* 1-based line number of the message, 0 when the message carries none.    *)
(***************************************************************************)
Ok == [kind |-> "Ok"]

ParseError_line_idx(msg, path, line, name, other) ==
    [kind |-> "Parse", msg |-> msg, path |-> path, line |-> line - 1,
     name |-> name, other |-> other]

ParseError(msg, path, line, name, other) ==
    [kind |-> "Parse", msg |-> msg, path |-> path, line |-> line,
     name |-> name, other |-> other]

Panic(msg) == [kind |-> "Panic", msg |-> msg]

(***************************************************************************)
(* The corpus: types, exports, files.                                      *)
(***************************************************************************)
\* SymCorpus::new
EmptyCorpus == [types |-> EmptyMap, exports |-> EmptyMap, files |-> << >>]

SymFile(path, records) == [path |-> path, records |-> records]

\* A faulty merge_type that appends without looking for an equal variant.
merge_type_append(types, type_name, tokens) ==
    IF type_name \in DOMAIN types
    THEN [types |-> Put(types, type_name, Append(types[type_name], tokens)),
          idx |-> Len(types[type_name])]
    ELSE [types |-> Put(types, type_name, <<tokens>>), idx |-> 0]

merge_type_one_based(types, type_name, tokens) ==
    IF type_name \in DOMAIN types
    THEN LET variants == types[type_name]
         IN  IF \E i \in 1..Len(variants) : variants[i] = tokens
             THEN [types |-> types,
                   idx |-> CHOOSE i \in 1..Len(variants) :
                               /\ variants[i] = tokens
                               /\ \A j \in 1..(i - 1) : variants[j] # tokens]
             ELSE [types |-> Put(types, type_name, Append(variants, tokens)),
                   idx |-> Len(variants)]
    ELSE [types |-> Put(types, type_name, <<tokens>>), idx |-> 0]

\* merge_type, run under the write lock of types: the index of the variant
\* equal to tokens, appending it when there is none.
merge_type(types, type_name, tokens) ==
    IF type_name \in DOMAIN types
    THEN LET variants == types[type_name]
         IN  IF \E i \in 1..Len(variants) : variants[i] = tokens
             THEN [types |-> types,
                   idx |-> (CHOOSE i \in 1..Len(variants) :
                               /\ variants[i] = tokens
                               /\ \A j \in 1..(i - 1) : variants[j] # tokens) - 1]
             ELSE [types |-> Put(types, type_name, Append(variants, tokens)),
                   idx |-> Len(variants)]
    ELSE [types |-> Put(types, type_name, <<tokens>>), idx |-> 0]

try_insert_export_any(exports, files, type_name, file_idx, line_idx) ==
    IF type_name \notin DOMAIN exports
    THEN [exports |-> Put(exports, type_name, file_idx), res |-> Ok]
    ELSE [exports |-> exports,
          res |-> ParseError("Export is duplicate", files[file_idx + 1].path,
                             line_idx + 1, type_name,
                             files[exports[type_name] + 1].path)]

\* try_insert_export: registers an export under the exports lock; an
\* occupied entry is an error that cites the paths of both files.
try_insert_export(exports, files, type_name, file_idx, line_idx) ==
    IF ~is_export(type_name)
    THEN [exports |-> exports, res |-> Ok]
    ELSE IF type_name \notin DOMAIN exports
    THEN [exports |-> Put(exports, type_name, file_idx), res |-> Ok]
    ELSE [exports |-> exports,
          res |-> ParseError("Export is duplicate", files[file_idx + 1].path,
                             line_idx + 1, type_name,
                             files[exports[type_name] + 1].path)]

\* extrapolate_file_record: adds to records the types that the tokens of
\* name reference and that the F# record left out.  expanded lists the
\* names whose tokens the walk has read (line 677), in their order.
RECURSIVE extrapolate_file_record(_, _, _, _, _, _, _)
RECURSIVE ExtrapolateTokens(_, _, _, _, _, _)
extrapolate_file_record(corpus_path, file_name, name, variant_idx, is_explicit, types, records) ==
    IF is_explicit /\ name \notin DOMAIN records
    THEN [records |-> records, res |-> Panic("assert explicit record"), expanded |-> << >>]
    ELSE IF ~is_explicit /\ variant_idx # 0
    THEN [records |-> records, res |-> Panic("assert variant_idx"), expanded |-> << >>]
    ELSE IF ~is_explicit /\ name \in DOMAIN records
    THEN [records |-> records, res |-> Ok, expanded |-> << >>]
    ELSE LET recs == IF is_explicit THEN records ELSE Put(records, name, variant_idx)
         IN  IF name \notin DOMAIN types
             THEN [records |-> recs, res |-> Panic("unwrap on None"), expanded |-> << >>]
             ELSE IF Len(types[name]) = 0
             THEN [records |-> recs, res |-> Panic("assert variants"), expanded |-> << >>]
             ELSE IF ~is_explicit /\ Len(types[name]) > 1
             THEN [records |-> recs,
                   res |-> ParseError("implicitly referenced with multiple variants",
                                      corpus_path, 0, name, file_name),
                   expanded |-> << >>]
             ELSE IF variant_idx >= Len(types[name])
             THEN [records |-> recs, res |-> Panic("index out of bounds"),
                   expanded |-> << >>]
             ELSE LET r == ExtrapolateTokens(corpus_path, file_name,
                                             types[name][variant_idx + 1], 1, types, recs)
                  IN  [r EXCEPT !.expanded = <<name>> \o @]

\* The loop of extrapolate_file_record over the tokens, from position i.
ExtrapolateTokens(corpus_path, file_name, tokens, i, types, records) ==
    IF i > Len(tokens)
    THEN [records |-> records, res |-> Ok, expanded |-> << >>]
    ELSE IF ~tokens[i].typeref
    THEN ExtrapolateTokens(corpus_path, file_name, tokens, i + 1, types, records)
    ELSE LET r == extrapolate_file_record(corpus_path, file_name, tokens[i].text,
                                          0, FALSE, types, records)
         IN  IF r.res.kind # "Ok"
             THEN r
             ELSE LET q == ExtrapolateTokens(corpus_path, file_name, tokens, i + 1,
                                             types, r.records)
                  IN  [q EXCEPT !.expanded = r.expanded \o @]

(***************************************************************************)
(* load_inner, cut into the steps between which another worker can run:    *)
(* each step takes at most one of the locks of the LoadContext.  c is the  *)
(* corpus behind the LoadContext, l holds the local variables of one call. *)
(* A step gives the corpus and the locals after it.                        *)
(***************************************************************************)
\* usize::MAX, the file_idx of a consolidated file and the sentinel of the
\* writer.
USIZE_MAX == -1

F_PREFIX == <<"F", "#">>

\* The locals of load_inner on entry.
LoadLocals(path, lines) ==
    [pc |-> "open", path |-> path, lines |-> lines, is_consolidated |-> FALSE,
     file_idx |-> USIZE_MAX, line_idx |-> 0, all_names |-> {},
     file_indices |-> << >>, records |-> EmptyMap, remap |-> EmptyMap,
     name |-> << >>, decl |-> 0, file_name |-> << >>, words |-> << >>,
     walk_records |-> << >>, res |-> Ok]

Return(c, l, res) == [c |-> c, l |-> [l EXCEPT !.pc = "return", !.res = res]]

\* Where load_inner continues when line_idx has been advanced.
AfterLine(l) ==
    IF l.line_idx < Len(l.lines) THEN "line"
    ELSE IF ~l.is_consolidated THEN "finish"
    ELSE IF Len(l.file_indices) > 0 THEN "decl"
    ELSE "return"

\* Where load_inner continues when the words of an F# record are consumed.
AfterWords(l) ==
    IF Len(l.words) > 0 THEN "selector"
    ELSE IF Len(l.walk_records) > 0 THEN "extrapolate"
    ELSE "finish_decl"

\* Lines 354-377: detect the format; a plain file is pushed to files.
StepOpen(c, l) ==
    LET is_consolidated == \E i \in 1..Len(l.lines) : starts_with(l.lines[i], F_PREFIX)
        files == IF is_consolidated THEN c.files
                 ELSE Append(c.files, SymFile(l.path, EmptyMap))
        l1 == [l EXCEPT !.is_consolidated = is_consolidated,
                        !.file_idx = IF is_consolidated THEN USIZE_MAX
                                     ELSE Len(files) - 1]
    IN  [c |-> [c EXCEPT !.files = files], l |-> [l1 EXCEPT !.pc = AfterLine(l1)]]

\* Lines 384-439: one line of the file up to the insertion of its type.
StepLine(c, l) ==
    LET words == split_ascii_whitespace(l.lines[l.line_idx + 1])
    IN  IF Len(words) = 0
        THEN Return(c, l, ParseError("Expected a record name", l.path,
                                     l.line_idx + 1, << >>, << >>))
        ELSE LET name == words[1] IN
        IF name \in l.all_names
        THEN Return(c, l, ParseError("Duplicate record", l.path, l.line_idx + 1,
                                     name, << >>))
        ELSE IF starts_with(name, F_PREFIX)
        THEN LET l1 == [l EXCEPT !.all_names = @ \cup {name},
                                 !.file_indices = Append(@, l.line_idx),
                                 !.line_idx = @ + 1]
             IN  [c |-> c, l |-> [l1 EXCEPT !.pc = AfterLine(l1)]]
        ELSE LET tokens == words_into_tokens(Tail(words))
                 split == IF l.is_consolidated THEN split_type_name(name)
                          ELSE <<name, << >> >>
                 base_name == split[1]
                 orig_variant_name == split[2]
                 m == merge_type(c.types, base_name, tokens)
                 c1 == [c EXCEPT !.types = m.types]
             IN  IF l.is_consolidated
                 THEN LET inner == IF base_name \in DOMAIN l.remap
                                   THEN l.remap[base_name] ELSE EmptyMap
                          l1 == [l EXCEPT !.all_names = @ \cup {name},
                                          !.remap = Put(@, base_name,
                                                        Put(inner, orig_variant_name, m.idx)),
                                          !.line_idx = @ + 1]
                      IN  [c |-> c1, l |-> [l1 EXCEPT !.pc = AfterLine(l1)]]
                 ELSE [c |-> c1,
                       l |-> [l EXCEPT !.all_names = @ \cup {name},
                                       !.records = Put(@, base_name, m.idx),
                                       !.name = base_name,
                                       !.pc = "export"]]

\* Line 440: the export registration of a record of a plain file.
StepExport(c, l) ==
    LET r == try_insert_export(c.exports, c.files, l.name, l.file_idx, l.line_idx)
        l1 == [l EXCEPT !.line_idx = @ + 1]
    IN  IF r.res.kind # "Ok"
        THEN Return(c, l, r.res)
        ELSE [c |-> [c EXCEPT !.exports = r.exports],
              l |-> [l1 EXCEPT !.pc = AfterLine(l1)]]

\* Lines 446-451: the records of a plain file are stored.
StepFinish(c, l) ==
    Return([c EXCEPT !.files[l.file_idx + 1].records = l.records], l, Ok)

\* Lines 456-473: an F# record pushes its file.
StepDecl(c, l) ==
    LET line_idx == l.file_indices[l.decl + 1]
        words == split_ascii_whitespace(l.lines[line_idx + 1])
        record_name == words[1]
        file_name == SubSeq(record_name, 3, Len(record_name))
        files == Append(c.files, SymFile(file_name, EmptyMap))
        l1 == [l EXCEPT !.line_idx = line_idx, !.file_name = file_name,
                        !.file_idx = Len(files) - 1, !.records = EmptyMap,
                        !.words = Tail(words), !.walk_records = << >>]
    IN  [c |-> [c EXCEPT !.files = files], l |-> [l1 EXCEPT !.pc = AfterWords(l1)]]

StepSelector_corpus(c, l) ==
    LET type_name == Head(l.words)
        split == split_type_name(type_name)
        base_name == split[1]
        orig_variant_name == split[2]
        known == base_name \in DOMAIN l.remap /\ orig_variant_name \in DOMAIN l.remap[base_name]
    IN  IF ~known /\ base_name \notin DOMAIN c.types
        THEN Return(c, l, ParseError("Type is not known", l.path, l.line_idx + 1,
                                     type_name, << >>))
        ELSE LET variant_idx == IF known THEN l.remap[base_name][orig_variant_name] ELSE 0
                 records == Put(l.records, base_name, variant_idx)
                 r == try_insert_export(c.exports, c.files, base_name, l.file_idx,
                                        l.line_idx)
                 names == SortSet(DOMAIN records, StrLess)
                 l1 == [l EXCEPT !.records = records, !.words = Tail(@),
                                 !.walk_records =
                                     IF Len(l.words) = 1
                                     THEN [i \in 1..Len(names) |->
                                              <<names[i], records[names[i]]>>]
                                     ELSE << >>]
             IN  IF r.res.kind # "Ok"
                 THEN Return(c, [l EXCEPT !.records = records], r.res)
                 ELSE [c |-> [c EXCEPT !.exports = r.exports],
                       l |-> [l1 EXCEPT !.pc = AfterWords(l1)]]

\* Lines 474-498: one selector of an F# record.  walk_records is taken in
\* the order of the names (the order of a HashMap iteration in the source).
StepSelector(c, l) ==
    LET type_name == Head(l.words)
        split == split_type_name(type_name)
        base_name == split[1]
        orig_variant_name == split[2]
    IN  IF ~(base_name \in DOMAIN l.remap /\ orig_variant_name \in DOMAIN l.remap[base_name])
        THEN Return(c, l, ParseError("Type is not known", l.path, l.line_idx + 1,
                                     type_name, << >>))
        ELSE LET variant_idx == l.remap[base_name][orig_variant_name]
                 records == Put(l.records, base_name, variant_idx)
                 r == try_insert_export(c.exports, c.files, base_name, l.file_idx,
                                        l.line_idx)
                 names == SortSet(DOMAIN records, StrLess)
                 l1 == [l EXCEPT !.records = records, !.words = Tail(@),
                                 !.walk_records =
                                     IF Len(l.words) = 1
                                     THEN [i \in 1..Len(names) |->
                                              <<names[i], records[names[i]]>>]
                                     ELSE << >>]
             IN  IF r.res.kind # "Ok"
                 THEN Return(c, [l EXCEPT !.records = records], r.res)
                 ELSE [c |-> [c EXCEPT !.exports = r.exports],
                       l |-> [l1 EXCEPT !.pc = AfterWords(l1)]]

\* Lines 499-510: the extrapolation from one explicit record, under the
\* read lock of types.  The iteration of the HashMap can yield any of the
\* records that are left: k is the position of the one it yields.
StepExtrapolateAt(c, l, k) ==
    LET name == l.walk_records[k][1]
        variant_idx == l.walk_records[k][2]
        r == extrapolate_file_record(l.path, l.file_name, name, variant_idx, TRUE,
                                     c.types, l.records)
        l1 == [l EXCEPT !.records = r.records,
                        !.walk_records = SubSeq(@, 1, k - 1) \o SubSeq(@, k + 1, Len(@))]
    IN  IF r.res.kind # "Ok"
        THEN Return(c, [l EXCEPT !.records = r.records], r.res)
        ELSE [c |-> c, l |-> [l1 EXCEPT !.pc = AfterWords(l1)]]

\* The same, for the iteration that yields the names in their order.
StepExtrapolate(c, l) == StepExtrapolateAt(c, l, 1)

\* Lines 512-516: the records of the file of an F# record are stored.
StepFinishDecl(c, l) ==
    LET c1 == [c EXCEPT !.files[l.file_idx + 1].records = l.records]
    IN  IF l.decl + 1 < Len(l.file_indices)
        THEN [c |-> c1, l |-> [l EXCEPT !.decl = @ + 1, !.pc = "decl"]]
        ELSE Return(c1, l, Ok)

\* The step of load_inner at the position l.pc.
LoadStep(c, l) ==
    CASE l.pc = "open" -> StepOpen(c, l)
      [] l.pc = "line" -> StepLine(c, l)
      [] l.pc = "export" -> StepExport(c, l)
      [] l.pc = "finish" -> StepFinish(c, l)
      [] l.pc = "decl" -> StepDecl(c, l)
      [] l.pc = "selector" -> StepSelector(c, l)
      [] l.pc = "extrapolate" -> StepExtrapolate(c, l)
      [] l.pc = "finish_decl" -> StepFinishDecl(c, l)

\* load_inner run to its end without interruption.
RECURSIVE RunLoad(_, _)
RunLoad(c, l) ==
    IF l.pc = "return" THEN [c |-> c, res |-> l.res]
    ELSE LET s == LoadStep(c, l) IN RunLoad(s.c, s.l)

\* load_buffer: one file loaded by the calling thread.
load_buffer(c, path, lines) == RunLoad(c, LoadLocals(path, lines))

(***************************************************************************)
(* The consolidated writer.                                                *)
(***************************************************************************)
RECURSIVE ConcatAll(_)
ConcatAll(ss) == IF ss = << >> THEN << >> ELSE Head(ss) \o ConcatAll(Tail(ss))

\* The order of the keys (is_export(name), name): false before true.
RecordNameLess(a, b) ==
    \/ ~is_export(a) /\ is_export(b)
    \/ is_export(a) = is_export(b) /\ StrLess(a, b)

\* A faulty order that leaves the files in the order of their indices.
PathLess_unsorted(files, i, j) == FALSE

\* The order of the file indices under sort_by_key(|&i| &self.files[i].path).
\* The comparison is a parameter so that the sort can be exchanged.
PathLess(files, i, j) == StrLess(files[i + 1].path, files[j + 1].path)

\* A faulty RemapIdx that writes the internal variant index.
RemapIdx_internal(remap, variant_idx) == variant_idx

\* Lines 743-762: the output variant index of the internal variant
\* variant_idx of a type whose map of output indices is remap: the index it
\* already has, or the next free one.
RemapIdx(remap, variant_idx) ==
    IF variant_idx \in DOMAIN remap
    THEN remap[variant_idx]
    ELSE Cardinality(DOMAIN remap)

\* consolidate_type: adds name and the types it references in symfile to
\* output_types and processed_types (the fields of st); st.expanded lists
\* the names whose tokens the walk has read, in their order.
RECURSIVE consolidate_type(_, _, _, _)
RECURSIVE ConsolidateTokens(_, _, _, _, _)
consolidate_type(corpus, symfile, name, st) ==
    IF st.res.kind # "Ok" \/ name \in DOMAIN st.processed_types
    THEN st
    ELSE IF name \notin DOMAIN symfile.records
    THEN [st EXCEPT !.res = Panic("is not known in file")]
    ELSE LET variant_idx == symfile.records[name]
             out == st.output_types
             remap == IF name \in DOMAIN out THEN out[name] ELSE EmptyMap
             remap_idx == RemapIdx(remap, variant_idx)
             st1 == [st EXCEPT
                        !.output_types = Put(out, name, Put(remap, variant_idx, remap_idx)),
                        !.processed_types = Put(@, name, remap_idx),
                        !.expanded = Append(@, name)]
         IN  IF name \notin DOMAIN corpus.types
             THEN [st1 EXCEPT !.res = Panic("has a missing declaration")]
             ELSE IF variant_idx >= Len(corpus.types[name])
             THEN [st1 EXCEPT !.res = Panic("index out of bounds")]
             ELSE ConsolidateTokens(corpus, symfile,
                                    corpus.types[name][variant_idx + 1], 1, st1)

\* The loop of consolidate_type over the tokens, from position i.
ConsolidateTokens(corpus, symfile, tokens, i, st) ==
    IF i > Len(tokens)
    THEN st
    ELSE ConsolidateTokens(corpus, symfile, tokens, i + 1,
                           IF tokens[i].typeref
                           THEN consolidate_type(corpus, symfile, tokens[i].text, st)
                           ELSE st)

\* Lines 824-836: the exports of one file, sorted, are the roots.
RECURSIVE ConsolidateRoots(_, _, _, _, _)
ConsolidateRoots(corpus, symfile, roots, k, st) ==
    IF k > Len(roots)
    THEN st
    ELSE ConsolidateRoots(corpus, symfile, roots, k + 1,
                          consolidate_type(corpus, symfile, roots[k], st))

\* Lines 820-838: the loop over the sorted files.  acc holds output_types,
\* file_types (by file index) and the result.
RECURSIVE ConsolidateFiles(_, _, _, _)
ConsolidateFiles(corpus, file_indices, k, acc) ==
    IF k > Len(file_indices) \/ acc.res.kind # "Ok"
    THEN acc
    ELSE LET i == file_indices[k]
             symfile == corpus.files[i + 1]
             exports == SortSet({name \in DOMAIN symfile.records : is_export(name)},
                                StrLess)
             st == ConsolidateRoots(corpus, symfile, exports, 1,
                                    [output_types |-> acc.output_types,
                                     processed_types |-> EmptyMap,
                                     res |-> Ok,
                                     expanded |-> << >>])
         IN  ConsolidateFiles(corpus, file_indices, k + 1,
                              [output_types |-> st.output_types,
                               file_types |-> Put(acc.file_types, i, st.processed_types),
                               res |-> st.res])

\* A record name with its output variant index: name@K.
SuffixedName(name, remap_idx) == name \o <<"@">> \o Decimal(remap_idx)

\* Words joined by single blanks: write!(" {}") after the first word.
JoinWords(words) ==
    ConcatAll([i \in 1..Len(words) |->
                  IF i = 1 THEN words[i] ELSE <<" ">> \o words[i]])

\* Lines 855-877: the lines of the type records of one name.
TypeRecordLines(corpus, name, remap) ==
    LET sorted_remap == SortSet({<<remap[v], v>> : v \in DOMAIN remap},
                                LAMBDA x, y : x[1] < y[1] \/ (x[1] = y[1] /\ x[2] < y[2]))
        needs_suffix == Len(sorted_remap) > 1
    IN  [k \in 1..Len(sorted_remap) |->
            LET remap_idx == sorted_remap[k][1]
                tokens == corpus.types[name][sorted_remap[k][2] + 1]
            IN  JoinWords(<<IF needs_suffix THEN SuffixedName(name, remap_idx) ELSE name>>
                          \o [t \in 1..Len(tokens) |-> as_str(tokens[t])])]

\* A faulty Selector that leaves out every name with one output variant.
Selector_suffixed_only(name, remap_idx) ==
    IF remap_idx # USIZE_MAX THEN <<name \o <<"@">> \o Decimal(remap_idx)>> ELSE << >>

\* Lines 894-900: the words an F# record lists for name: name@K, the bare
\* name of an export with one output variant, or nothing.
Selector(name, remap_idx) ==
    IF remap_idx # USIZE_MAX
    THEN <<SuffixedName(name, remap_idx)>>
    ELSE IF is_export(name) THEN <<name>> ELSE << >>

\* Lines 880-902: the F# record of the file with index i.
FileRecordLine(corpus, i, file_types_item) ==
    LET sorted_types == SortSet(DOMAIN file_types_item, RecordNameLess)
    IN  JoinWords(<<F_PREFIX \o corpus.files[i + 1].path>>
                  \o ConcatAll([k \in 1..Len(sorted_types) |->
                                   Selector(sorted_types[k],
                                            file_types_item[sorted_types[k]])]))

\* write_consolidated_buffer: the result and the lines written.
write_consolidated_buffer(corpus) ==
    LET n == Len(corpus.files)
        file_indices == StableSort([i \in 1..n |-> i - 1],
                                   LAMBDA i, j : PathLess(corpus.files, i, j))
        acc == ConsolidateFiles(corpus, file_indices, 1,
                                [output_types |-> EmptyMap,
                                 file_types |-> [i \in 0..(n - 1) |-> EmptyMap],
                                 res |-> Ok])
        output_types == acc.output_types
        \* Lines 842-849: mark the types with one output variant.
        file_types == [i \in 0..(n - 1) |->
                          [name \in DOMAIN acc.file_types[i] |->
                              IF Cardinality(DOMAIN output_types[name]) = 1
                              THEN USIZE_MAX
                              ELSE acc.file_types[i][name]]]
        sorted_records == SortSet(DOMAIN output_types, RecordNameLess)
    IN  IF acc.res.kind # "Ok"
        THEN [res |-> acc.res, lines |-> << >>]
        ELSE [res |-> Ok,
              lines |->
                  ConcatAll([k \in 1..Len(sorted_records) |->
                                TypeRecordLines(corpus, sorted_records[k],
                                                output_types[sorted_records[k]])])
                  \o [k \in 1..n |-> FileRecordLine(corpus, file_indices[k],
                                                    file_types[file_indices[k]])]]

(***************************************************************************)
(* The comparator: get_type_tokens, compare_types and the parts of         *)
(* compare_with.                                                           *)
(***************************************************************************)
\* A faulty get_type_tokens that takes the first variant of name, whatever
\* the file selects.
get_type_tokens_first(symtypes, file, name) ==
    IF name \notin DOMAIN file.records
    THEN [res |-> Panic("is not known in file"), tokens |-> << >>]
    ELSE [res |-> Ok, tokens |-> symtypes.types[name][1]]

\* get_type_tokens: the tokens that file selects for name, or the panic of
\* the failed lookup.
get_type_tokens(symtypes, file, name) ==
    IF name \notin DOMAIN file.records
    THEN [res |-> Panic("is not known in file"), tokens |-> << >>]
    ELSE IF name \notin DOMAIN symtypes.types
    THEN [res |-> Panic("has a missing declaration"), tokens |-> << >>]
    ELSE IF file.records[name] >= Len(symtypes.types[name])
    THEN [res |-> Panic("index out of bounds"), tokens |-> << >>]
    ELSE [res |-> Ok, tokens |-> symtypes.types[name][file.records[name] + 1]]

\* The key of an entry of CompareChangedTypes.
ChangeKey(name, tokens, other_tokens) ==
    [name |-> name, tokens |-> tokens, other_tokens |-> other_tokens]

\* Lines 953-955: the comparison of the immediate tokens.
TokensEqual(tokens, other_tokens) ==
    /\ Len(tokens) = Len(other_tokens)
    /\ \A i \in 1..Len(tokens) : tokens[i] = other_tokens[i]

\* A faulty FollowRef that follows every reference of tokens, as if the
\* token streams were equal.
FollowRef_all(token, other_tokens, is_equal) ==
    token.typeref

\* A faulty FollowRef that follows no reference of equal token streams.
FollowRef_unequal_only(token, other_tokens, is_equal) ==
    /\ token.typeref
    /\ ~is_equal
    /\ \E k \in 1..Len(other_tokens) :
          other_tokens[k].typeref /\ other_tokens[k].text = token.text

\* Lines 966-999: whether the walk recurses into the name of token: every
\* TypeRef when the token streams are equal, else a TypeRef that some
\* TypeRef of other_tokens names too.
FollowRef(token, other_tokens, is_equal) ==
    /\ token.typeref
    /\ \/ is_equal
       \/ \E k \in 1..Len(other_tokens) :
             other_tokens[k].typeref /\ other_tokens[k].text = token.text

\* A check of the processed names that lets the first repeated name pass.
IsProcessed_late(st, name) ==
    name \in st.processed /\ Len(st.expanded) > Cardinality(st.processed)

\* Lines 943-945: processed.get(name).is_some().
IsProcessed(st, name) == name \in st.processed

\* compare_types, for the sides a and b (each a corpus and a file of it).
\* st has the processed names, the pushes to changes that the walk makes,
\* in their order, the names whose tokens the walk has looked up, in their
\* order, and the result: Ok, or the panic that ended the walk.
RECURSIVE compare_types(_, _, _, _, _)
RECURSIVE CompareTokens(_, _, _, _, _, _, _, _)
compare_types(a, b, name, export, st) ==
    IF st.res.kind # "Ok" \/ IsProcessed(st, name)
    THEN st
    ELSE LET st1 == [st EXCEPT !.processed = @ \cup {name},
                               !.expanded = Append(@, name)]
             t == get_type_tokens(a.corpus, a.file, name)
             o == get_type_tokens(b.corpus, b.file, name)
         IN  IF t.res.kind # "Ok" THEN [st1 EXCEPT !.res = t.res]
             ELSE IF o.res.kind # "Ok" THEN [st1 EXCEPT !.res = o.res]
             ELSE LET is_equal == TokensEqual(t.tokens, o.tokens)
                      st2 == IF is_equal
                             THEN st1
                             ELSE [st1 EXCEPT !.pushes =
                                      Append(@, [key |-> ChangeKey(name, t.tokens, o.tokens),
                                                 export |-> export])]
                  IN  CompareTokens(a, b, t.tokens, o.tokens, is_equal, export, 1, st2)

\* The loop of compare_types over tokens, from position i.
CompareTokens(a, b, tokens, other_tokens, is_equal, export, i, st) ==
    IF i > Len(tokens) \/ st.res.kind # "Ok"
    THEN st
    ELSE CompareTokens(a, b, tokens, other_tokens, is_equal, export, i + 1,
                       IF FollowRef(tokens[i], other_tokens, is_equal)
                       THEN compare_types(a, b, tokens[i].text, export, st)
                       ELSE st)

\* Lines 1044-1056: the work of one export: the walk from name, when the
\* other corpus has the export too.
CompareExport(corpus, other, name, file_idx) ==
    LET st0 == [processed |-> {}, pushes |-> << >>, res |-> Ok, expanded |-> << >>]
    IN  IF file_idx < 0 \/ file_idx >= Len(corpus.files)
        THEN [st0 EXCEPT !.res = Panic("index out of bounds")]
        ELSE IF name \notin DOMAIN other.exports
        THEN st0
        ELSE IF other.exports[name] < 0 \/ other.exports[name] >= Len(other.files)
        THEN [st0 EXCEPT !.res = Panic("index out of bounds")]
        ELSE compare_types([corpus |-> corpus, file |-> corpus.files[file_idx + 1]],
                           [corpus |-> other,
                            file |-> other.files[other.exports[name] + 1]],
                           name, name, st0)

\* Lines 957-961: changes.entry(key).or_default().push(export).
PushChange(chg, key, export) ==
    Put(chg, key, Append(IF key \in DOMAIN chg THEN chg[key] ELSE << >>, export))

\* The orders in which a HashMap can yield the keys of m.
KeyOrders(m) ==
    {s \in [1..Cardinality(DOMAIN m) -> DOMAIN m] :
        \A i, j \in DOMAIN s : i # j => s[i] # s[j]}

\* A line of text written to the report.
TextLine(chars) == [kind |-> "line", text |-> chars]

EXPORT_Q == <<"E", "x", "p", "o", "r", "t", " ", "'">>
HAS_BEEN_REMOVED == <<"'", " ", "h", "a", "s", " ", "b", "e", "e", "n", " ", "r", "e", "m", "o", "v", "e", "d">>
HAS_BEEN_ADDED == <<"'", " ", "h", "a", "s", " ", "b", "e", "e", "n", " ", "a", "d", "d", "e", "d">>
THE_FOLLOWING_Q == <<"T", "h", "e", " ", "f", "o", "l", "l", "o", "w", "i", "n", "g", " ", "'">>
EXPORTS_ARE_DIFFERENT == <<"'", " ", "e", "x", "p", "o", "r", "t", "s", " ", "a", "r", "e", " ", "d", "i", "f", "f", "e", "r", "e", "n", "t", ":">>
BECAUSE_OF_A_CHANGED_Q == <<"b", "e", "c", "a", "u", "s", "e", " ", "o", "f", " ", "a", " ", "c", "h", "a", "n", "g", "e", "d", " ", "'">>
Q_COLON == <<"'", ":">>

\* Lines 1022-1026: the lines about the exports that keys_a yields and
\* exports_b lacks; change is the end of the line.
ExportLines(keys_a, exports_b, change) ==
    LET kept == SelectSeq(keys_a, LAMBDA name : name \notin DOMAIN exports_b)
    IN  [k \in 1..Len(kept) |-> TextLine(EXPORT_Q \o kept[k] \o change)]

\* Lines 1018-1027: the removed lines, then the added lines.
RemovedAddedLines(keys_self, keys_other, corpus, other) ==
    ExportLines(keys_self, other.exports, HAS_BEEN_REMOVED)
    \o ExportLines(keys_other, corpus.exports, HAS_BEEN_ADDED)

\* A faulty SortExports that leaves the exports in the order of the pushes.
SortExports_unsorted(exports_list) == exports_list

\* Line 1064: exports.sort().
SortExports(exports_list) == StableSort(exports_list, StrLess)

\* The derived order of ((name, tokens, other_tokens), exports), by which
\* line 1065 sorts.
ChangeLess(x, y) ==
    \/ StrLess(x.key.name, y.key.name)
    \/ /\ x.key.name = y.key.name
       /\ \/ TokensLess(x.key.tokens, y.key.tokens)
          \/ /\ x.key.tokens = y.key.tokens
             /\ \/ TokensLess(x.key.other_tokens, y.key.other_tokens)
                \/ /\ x.key.other_tokens = y.key.other_tokens
                   /\ SeqLess(x.exports, y.exports, StrLess)

(***************************************************************************)
(* The diff (src/src/diff/mod.rs).  A line is a sequence of characters; an *)
(* index is 0-based as in the source.  A usize that has wrapped below 0 is *)
(* kept as a negative number: usize::MAX is USIZE_MAX.                     *)
(***************************************************************************)
KeepA(index) == [op |-> "KeepA", index |-> index]
RemoveA(index) == [op |-> "RemoveA", index |-> index]
InsertB(index) == [op |-> "InsertB", index |-> index]

\* The order of usize: the numbers that have wrapped are the largest.
UsizeLess(p, q) == IF (p < 0) = (q < 0) THEN p < q ELSE q < 0

\* Line 75: the number of diagonals.
DiagonalCount(max) == IF 2 * max + 1 > 3 THEN 2 * max + 1 ELSE 3

\* Lines 69-76: the IVec v, indexed from -(len / 2).
NewDiagonals(max) ==
    [k \in (0 - DiagonalCount(max) \div 2)..(DiagonalCount(max) - 1 - DiagonalCount(max) \div 2) |->
        [x |-> USIZE_MAX, edit_index |-> USIZE_MAX]]

SameLine_any(a, b, x, y) == TRUE

\* Line 106: a[x] == b[y].
SameLine(a, b, x, y) == a[x + 1] = b[y + 1]

\* Lines 106-113: the snake from (x, y); each step pushes a KeepA.
RECURSIVE Snake(_, _, _, _, _, _)
Snake(a, b, x, y, edit_index, edit_chains) ==
    IF UsizeLess(x, Len(a)) /\ UsizeLess(y, Len(b)) /\ SameLine(a, b, x, y)
    THEN Snake(a, b, x + 1, y + 1, Len(edit_chains),
               Append(edit_chains, [prev |-> edit_index, step |-> KeepA(x)]))
    ELSE [x |-> x, y |-> y, edit_index |-> edit_index, edit_chains |-> edit_chains]

RECURSIVE EditScript_last_first(_, _)
EditScript_last_first(edit_chains, edit_index) ==
    IF edit_index = USIZE_MAX THEN << >>
    ELSE <<edit_chains[edit_index + 1].step>> \o
         EditScript_last_first(edit_chains, edit_chains[edit_index + 1].prev)

\* Lines 118-125: the steps of the chain that ends at edit_index, first
\* step first (the source collects them last step first and reverses).
RECURSIVE EditScript(_, _)
EditScript(edit_chains, edit_index) ==
    IF edit_index = USIZE_MAX THEN << >>
    ELSE Append(EditScript(edit_chains, edit_chains[edit_index + 1].prev),
                edit_chains[edit_index + 1].step)

\* Lines 80-130: the loops over d and k, from the iteration (d, k) on.
RECURSIVE MyersFrom(_, _, _, _, _, _)
MyersFrom(a, b, d, k, v, edit_chains) ==
    IF d > Len(a) + Len(b)
    THEN <<[op |-> "unreachable", index |-> 0]>>
    ELSE IF k > d
    THEN MyersFrom(a, b, d + 1, 0 - (d + 1), v, edit_chains)
    ELSE LET insert_b == k = 0 - d \/ (k # d /\ UsizeLess(v[k - 1].x, v[k + 1].x))
             x0 == IF insert_b THEN v[k + 1].x ELSE v[k - 1].x + 1
             e0 == IF insert_b THEN v[k + 1].edit_index ELSE v[k - 1].edit_index
             y0 == x0 - k
             chains == IF d # 0
                       THEN Append(edit_chains,
                                   [prev |-> e0,
                                    step |-> IF insert_b THEN InsertB(y0 - 1)
                                             ELSE RemoveA(x0 - 1)])
                       ELSE edit_chains
             e1 == IF d # 0 THEN Len(chains) - 1 ELSE e0
             s == Snake(a, b, x0, y0, e1, chains)
         IN  IF ~UsizeLess(s.x, Len(a)) /\ ~UsizeLess(s.y, Len(b))
             THEN EditScript(s.edit_chains, s.edit_index)
             ELSE MyersFrom(a, b, d, k + 2,
                            [v EXCEPT ![k] = [x |-> s.x, edit_index |-> s.edit_index]],
                            s.edit_chains)

\* myers: the edit script that transforms a into b.
myers(a, b) ==
    MyersFrom(a, b, 0, 0, [NewDiagonals(Len(a) + Len(b)) EXCEPT ![1].x = 0], << >>)

\* Line 168.
CONTEXT_SIZE == 3

\* format!(" {}", ..), format!("-{}", ..), format!("+{}", ..).
Prefixed(sign, line) == <<sign>> \o line

\* The lines a[from] .. a[to - 1] as context lines.
ContextLines(a, from, to) == [i \in 1..(to - from) |-> Prefixed(" ", a[from + i])]

\* Lines 169-172: the locals of unified before the loop; hunks collects the
\* arguments of the calls of write_hunk.
NewUnified ==
    [context_begin |-> 0, context_end |-> 0, pos_a |-> 1, pos_b |-> 1,
     hunk_pos_a |-> 0, hunk_len_a |-> 0, hunk_pos_b |-> 0, hunk_len_b |-> 0,
     hunk_data |-> << >>, hunks |-> << >>]

\* Lines 197-206 and 259-267: the call of write_hunk with the locals st.
CallWriteHunk(st) ==
    Append(st.hunks, [hunk_pos_a |-> st.hunk_pos_a, hunk_len_a |-> st.hunk_len_a,
                      hunk_pos_b |-> st.hunk_pos_b, hunk_len_b |-> st.hunk_len_b,
                      hunk_data |-> st.hunk_data])

ShouldClose_never(st) == FALSE

\* Line 190: a hunk is open and more than 2 * CONTEXT_SIZE lines were kept.
ShouldClose(st) ==
    st.hunk_data # << >> /\ st.context_end - st.context_begin > 2 * CONTEXT_SIZE

\* Lines 176-208: the step KeepA(index_a).
UnifiedKeep(a, st, index_a) ==
    LET s1 == IF st.context_begin = st.context_end
              THEN [st EXCEPT !.context_begin = index_a, !.context_end = index_a + 1]
              ELSE [st EXCEPT !.context_end = @ + 1]
        s2 == [s1 EXCEPT !.pos_a = @ + 1, !.pos_b = @ + 1]
    IN  IF ShouldClose(s2)
        THEN LET s3 == [s2 EXCEPT
                          !.hunk_data = @ \o ContextLines(a, s2.context_begin,
                                                          s2.context_begin + CONTEXT_SIZE),
                          !.hunk_len_a = @ + CONTEXT_SIZE,
                          !.hunk_len_b = @ + CONTEXT_SIZE,
                          !.context_begin = @ + CONTEXT_SIZE]
             IN  [s3 EXCEPT !.hunks = CallWriteHunk(s3), !.hunk_data = << >>]
        ELSE s2

\* Lines 210-245: the step RemoveA or InsertB.
UnifiedChange(a, b, st, edit) ==
    LET begin == IF st.hunk_data = << >> /\ st.context_end - st.context_begin > CONTEXT_SIZE
                 THEN st.context_end - CONTEXT_SIZE
                 ELSE st.context_begin
        s1 == IF st.hunk_data = << >>
              THEN [st EXCEPT !.context_begin = begin,
                              !.hunk_pos_a = st.pos_a - (st.context_end - begin),
                              !.hunk_len_a = 0,
                              !.hunk_pos_b = st.pos_b - (st.context_end - begin),
                              !.hunk_len_b = 0]
              ELSE st
        s2 == IF edit.op = "RemoveA" THEN [s1 EXCEPT !.pos_a = @ + 1]
              ELSE [s1 EXCEPT !.pos_b = @ + 1]
        s3 == [s2 EXCEPT
                 !.hunk_data = @ \o ContextLines(a, s2.context_begin, s2.context_end),
                 !.hunk_len_a = @ + (s2.context_end - s2.context_begin),
                 !.hunk_len_b = @ + (s2.context_end - s2.context_begin),
                 !.context_begin = s2.context_end]
    IN  IF edit.op = "RemoveA"
        THEN [s3 EXCEPT !.hunk_data = Append(@, Prefixed("-", a[edit.index + 1])),
                        !.hunk_len_a = @ + 1]
        ELSE [s3 EXCEPT !.hunk_data = Append(@, Prefixed("+", b[edit.index + 1])),
                        !.hunk_len_b = @ + 1]

\* Lines 249-268: the last hunk is closed off.
UnifiedClose(a, st) ==
    IF st.hunk_data = << >> THEN st
    ELSE LET end == IF st.context_end - st.context_begin > CONTEXT_SIZE
                    THEN st.context_begin + CONTEXT_SIZE
                    ELSE st.context_end
             s1 == [st EXCEPT
                      !.context_end = end,
                      !.hunk_data = @ \o ContextLines(a, st.context_begin, end),
                      !.hunk_len_a = @ + (end - st.context_begin),
                      !.hunk_len_b = @ + (end - st.context_begin)]
         IN  [s1 EXCEPT !.hunks = CallWriteHunk(s1)]

\* Lines 174-247: the loop over the edit script.
RECURSIVE UnifiedLoop(_, _, _, _)
UnifiedLoop(a, b, edit_script, st) ==
    IF edit_script = << >> THEN st
    ELSE LET edit == Head(edit_script)
         IN  UnifiedLoop(a, b, Tail(edit_script),
                         IF edit.op = "KeepA" THEN UnifiedKeep(a, st, edit.index)
                         ELSE UnifiedChange(a, b, st, edit))

\* The calls of write_hunk that unified(a, b) makes, in their order.
WriteHunkCalls(a, b) == UnifiedClose(a, UnifiedLoop(a, b, myers(a, b), NewUnified)).hunks

AT_AT == <<"@", "@">>

write_hunk_zero_based(hunk_pos_a, hunk_len_a, hunk_pos_b, hunk_len_b, hunk_data) ==
    <<AT_AT \o <<" ", "-">> \o Decimal(hunk_pos_a - 1) \o <<",">> \o Decimal(hunk_len_a)
          \o <<" ", "+">> \o Decimal(hunk_pos_b - 1) \o <<",">> \o Decimal(hunk_len_b)
          \o <<" ">> \o AT_AT>> \o hunk_data

\* write_hunk: the header "@@ -pos_a,len_a +pos_b,len_b @@" and the lines
\* of the hunk.
write_hunk(hunk_pos_a, hunk_len_a, hunk_pos_b, hunk_len_b, hunk_data) ==
    <<AT_AT \o <<" ", "-">> \o Decimal(hunk_pos_a) \o <<",">> \o Decimal(hunk_len_a)
          \o <<" ", "+">> \o Decimal(hunk_pos_b) \o <<",">> \o Decimal(hunk_len_b)
          \o <<" ">> \o AT_AT>> \o hunk_data

\* unified: the lines written for the diff of a and b (the writer is taken
\* not to fail).
unified(a, b) ==
    LET calls == WriteHunkCalls(a, b)
    IN  ConcatAll([i \in 1..Len(calls) |->
                      write_hunk(calls[i].hunk_pos_a, calls[i].hunk_len_a,
                                 calls[i].hunk_pos_b, calls[i].hunk_len_b,
                                 calls[i].hunk_data)])

(***************************************************************************)
(* The pretty printer of a type (pretty_format_type).                      *)
(***************************************************************************)
TAB == "\t"

\* Lines 1105-1109: indent tabs are appended to line.
push_indent(line, indent) == line \o [i \in 1..indent |-> TAB]

sub_unchecked(n, m) == n - m

\* usize::saturating_sub.
saturating_sub(n, m) == IF n >= m THEN n - m ELSE 0

IsOpening(text) == text = <<"{">> \/ text = <<"(">>
IsClosing(text) == text = <<"}">> \/ text = <<")">>

\* Lines 1117-1168: one token; st holds res, indent and line.
PrettyStep(st, token) ==
    LET text == as_str(token)
        s1 == IF IsClosing(text)
              THEN [res |-> IF st.line # << >> THEN Append(st.res, st.line) ELSE st.res,
                    indent |-> saturating_sub(st.indent, 1),
                    line |-> << >>]
              ELSE st
        is_first == s1.line = << >>
        line == IF is_first THEN push_indent(s1.line, s1.indent) ELSE s1.line
        spaced == IF is_first THEN line ELSE Append(line, " ")
    IN  CASE IsOpening(text) ->
               [res |-> Append(s1.res, spaced \o text), indent |-> s1.indent + 1,
                line |-> << >>]
          [] IsClosing(text) -> [s1 EXCEPT !.line = line \o text]
          [] text = <<";">> ->
               [s1 EXCEPT !.res = Append(@, Append(line, ";")), !.line = << >>]
          [] text = <<",">> ->
               [s1 EXCEPT !.res = Append(@, Append(line, ",")), !.line = << >>]
          [] OTHER -> [s1 EXCEPT !.line = spaced \o text]

\* The loop over the tokens.
RECURSIVE PrettyLoop(_, _)
PrettyLoop(st, tokens) ==
    IF tokens = << >> THEN st ELSE PrettyLoop(PrettyStep(st, Head(tokens)), Tail(tokens))

\* pretty_format_type: the lines of the pretty-printed type.
pretty_format_type(tokens) ==
    LET st == PrettyLoop([res |-> << >>, indent |-> 0, line |-> << >>], tokens)
    IN  IF st.line # << >> THEN Append(st.res, st.line) ELSE st.res

\* write_type_diff: the unified diff of the two pretty-printed types, kept
\* as one item of the report that carries the two token streams.
write_type_diff(tokens, other_tokens) ==
    <<[kind |-> "type_diff", tokens |-> tokens, other_tokens |-> other_tokens]>>

\* Lines 1069-1088: what is written for one change; add_separator tells
\* whether a change was written before it.
ChangeBlock(change, add_separator) ==
    (IF add_separator THEN <<TextLine(<< >>)>> ELSE << >>)
    \o <<TextLine(THE_FOLLOWING_Q \o Decimal(Len(change.exports))
                  \o EXPORTS_ARE_DIFFERENT)>>
    \o [k \in 1..Len(change.exports) |-> TextLine(<<" ">> \o change.exports[k])]
    \o <<TextLine(<< >>)>>
    \o <<TextLine(BECAUSE_OF_A_CHANGED_Q \o change.key.name \o Q_COLON)>>
    \o write_type_diff(change.key.tokens, change.key.other_tokens)

\* Lines 1062-1089: the changes, sorted, as they are written.
ChangeLines(chg) ==
    LET sorted == SortSet({[key |-> k, exports |-> SortExports(chg[k])] :
                              k \in DOMAIN chg}, ChangeLess)
    IN  ConcatAll([k \in 1..Len(sorted) |-> ChangeBlock(sorted[k], k > 1)])

(***************************************************************************)
(* Input files.  A file is given by the words of its records and turned    *)
(* into text, which the loader parses.                                     *)
(***************************************************************************)
sA == <<"s", "#", "a">>
sB == <<"s", "#", "b">>
wE == <<"e">>
wF == <<"f">>
wG == <<"g">>
wI == <<"i">>
wJ == <<"j">>

FileText(records) == [k \in 1..Len(records) |-> JoinWords(records[k])]

\* The contents a file of a load can have: a chain of types, the same chain
\* over another variant of its leaf, a shared leaf, a cycle of references,
\* a type no export reaches, a reference without a record, a type
\* that references itself.  Record names have no @ (plain files never use
\* it).
LoadMenu ==
    { FileText(<< <<sA, wI>>, <<sB, sA>>, <<wE, sB>> >>),
      FileText(<< <<sA, wJ>>, <<sB, sA>>, <<wF, sB>> >>),
      FileText(<< <<sA, wI>>, <<wF, sA>> >>),
      FileText(<< <<sA, sB>>, <<sB, sA>>, <<wG, sA>> >>),
      FileText(<< <<sB, wI>>, <<wG, wI>> >>),
      FileText(<< <<sB, wI>>, <<wE, sB>>, <<wG, sA>> >>),
      FileText(<< <<sA, sA>>, <<wF, sA>> >>) }

\* The paths of the files, in ascending order; one of them has a blank.
PathMenu == << <<"p">>, <<"q">>, <<"q", " ", "r">> >>

\* The strictly ascending selections of n positions of PathMenu.
PathChoices(n) ==
    {s \in [1..n -> 1..Len(PathMenu)] : \A i \in 1..(n - 1) : s[i] < s[i + 1]}

\* The work lists of a load: up to max files of the menu under distinct
\* paths, listed in the order of their paths.
WorkLists(menu, max) ==
    UNION {{[i \in 1..n |-> [path |-> PathMenu[ps[i]], lines |-> content[i]]] :
               content \in [1..n -> menu], ps \in PathChoices(n)} : n \in 1..max}

\* load_symfiles run by one worker: the files in the order of the list, up
\* to the first error.
RECURSIVE LoadSeq(_, _, _)
LoadSeq(c, list, k) ==
    IF k > Len(list)
    THEN [c |-> c, res |-> Ok]
    ELSE LET r == load_buffer(c, list[k].path, list[k].lines)
         IN  IF r.res.kind # "Ok" THEN r ELSE LoadSeq(r.c, list, k + 1)

(***************************************************************************)
(* The state.                                                              *)
(***************************************************************************)
VARIABLES
    symfiles,       \* the work list of load_symfiles: paths and contents
    types,          \* SymCorpus.types of the corpus being loaded
    exports,        \* SymCorpus.exports
    files,          \* SymCorpus.files
    next_work_idx,  \* the shared atomic counter of load_symfiles
    workers,        \* per load worker: position, locals of load_inner, result
    main,           \* the position of the calling thread
    load_result,    \* the result of load_symfiles
    written,        \* the result and the lines of write_consolidated_buffer
    other_symfiles, \* the files the second corpus of a comparison is loaded from
    other_corpus,   \* the second corpus of a comparison
    works,          \* compare_with: the work list of exports
    cmp_next,       \* compare_with: the shared atomic counter
    cmp_workers,    \* per compare worker: position, the walk of its export
    changes,        \* compare_with: the map of the changed types
    report,         \* the result of compare_with and what it has written
    call,           \* a call of a function of the diff or of the formatter
    ret,            \* what that call has returned
    progress,       \* per work list and index: how often it was taken and finished
    locks           \* per load worker: the locks of the LoadContext it holds

vars == <<symfiles, types, exports, files, next_work_idx, workers, main,
          load_result, written, other_symfiles, other_corpus, works, cmp_next,
          cmp_workers, changes, report, call, ret, progress, locks>>

fnVars == <<call, ret>>

\* A read of the shared index that is not followed by its increment.
fetch_load(i) == i

\* next_work_idx.fetch_add(1, Ordering::Relaxed): the value read is the
\* caller's work index, the value stored is one more; read and write are
\* one atomic step.
fetch_add(i) == i + 1

\* A worker that gives up one index before the end of the list.
NoWorkLeft_early(work_idx, len) == work_idx >= len - 1

\* Line 295: work_idx >= symfiles.len(), the worker has no file to take.
NoWorkLeft(work_idx, len) == work_idx >= len

\* The progress of a work list of n items none of which was taken, and of
\* one whose items were all taken and finished once.
NoProgress(n) == [i \in 1..n |-> [taken |-> 0, finished |-> 0]]
AllProgress(n) == [i \in 1..n |-> [taken |-> 1, finished |-> 1]]

loadVars == <<symfiles, types, exports, files, next_work_idx, workers,
              load_result, written, locks>>

cmpVars == <<other_symfiles, other_corpus, works, cmp_next, cmp_workers,
             changes, report>>

Workers == 1..NumWorkers
CmpWorkers == 1..NumCmpWorkers

\* The corpus behind the LoadContext.
Corpus == [types |-> types, exports |-> exports, files |-> files]

None == [kind |-> "None"]

IdleLocals == LoadLocals(<< >>, << >>)

\* No worker holds a lock; at tells where in try_insert_export a worker is
\* when it has left the block of the exports lock with a duplicate.
NoLocks == [w \in Workers |-> [held |-> {}, at |-> ""]]

NoReport == [res |-> None, lines |-> << >>]

\* A compare worker that has no work.
IdleCmpWorker ==
    [pc |-> "idle", export |-> << >>, processed |-> {}, pending |-> << >>,
     res |-> Ok]

\* No function is called on its own.
NoCall ==
    /\ call = None
    /\ ret = None

NoCompare ==
    /\ other_symfiles = << >>
    /\ other_corpus = EmptyCorpus
    /\ works = << >>
    /\ cmp_next = 0
    /\ cmp_workers = [w \in CmpWorkers |-> IdleCmpWorker]
    /\ changes = EmptyMap
    /\ report = NoReport

(***************************************************************************)
(* The parallel load (load_symfiles) followed by the consolidated write.   *)
(***************************************************************************)
Init ==
    /\ symfiles \in WorkLists(LoadMenu, MaxFiles)
    /\ types = EmptyMap
    /\ exports = EmptyMap
    /\ files = << >>
    /\ next_work_idx = 0
    /\ workers = [w \in Workers |-> [pc |-> "fetch", l |-> IdleLocals, res |-> None]]
    /\ main = "load"
    /\ load_result = None
    /\ written = NoReport
    /\ progress = [load |-> NoProgress(Len(symfiles)), cmp |-> << >>]
    /\ locks = NoLocks
    /\ NoCompare
    /\ NoCall

\* Lines 294-298: a worker takes the next index of the work list.
Fetch(w) ==
    /\ main = "load"
    /\ workers[w].pc = "fetch"
    /\ next_work_idx' = fetch_add(next_work_idx)
    /\ workers' = [workers EXCEPT ![w] =
          IF NoWorkLeft(next_work_idx, Len(symfiles))
          THEN [pc |-> "done", l |-> IdleLocals, res |-> Ok]
          ELSE [pc |-> "load",
                l |-> LoadLocals(symfiles[next_work_idx + 1].path,
                                 symfiles[next_work_idx + 1].lines),
                res |-> None]]
    /\ progress' = IF NoWorkLeft(next_work_idx, Len(symfiles)) THEN progress
                   ELSE [progress EXCEPT !.load[next_work_idx + 1].taken = @ + 1]
    /\ UNCHANGED <<symfiles, types, exports, files, main, load_result, written, locks>>
    /\ UNCHANGED cmpVars
    /\ UNCHANGED fnVars

\* Line 307: one step of load_inner by worker w, at the position pc.  An
\* error ends the worker (the ? of line 307), Ok returns it to the loop.
WorkerApply(w, pc, s) ==
    /\ main = "load"
    /\ workers[w].pc = "load"
    /\ workers[w].l.pc = pc
    /\ types' = s.c.types
    /\ exports' = s.c.exports
    /\ files' = s.c.files
    /\ workers' = [workers EXCEPT ![w] =
          IF s.l.pc # "return"
          THEN [pc |-> "load", l |-> s.l, res |-> None]
          ELSE IF s.l.res.kind = "Ok"
          THEN [pc |-> "fetch", l |-> IdleLocals, res |-> None]
          ELSE [pc |-> "done", l |-> IdleLocals, res |-> s.l.res]]
    /\ progress' =
          IF s.l.pc = "return" /\ s.l.res.kind # "Panic"
          THEN [progress EXCEPT
                  !.load[CHOOSE i \in 1..Len(symfiles) :
                            symfiles[i].path = workers[w].l.path].finished = @ + 1]
          ELSE progress
    /\ UNCHANGED <<symfiles, next_work_idx, main, load_result, written>>
    /\ UNCHANGED cmpVars
    /\ UNCHANGED fnVars

WorkerStep(w, pc) ==
    /\ workers[w].pc = "load"
    /\ workers[w].l.pc = pc
    /\ WorkerApply(w, pc, LoadStep(Corpus, workers[w].l))
    /\ UNCHANGED locks

Open(w) == WorkerStep(w, "open")
Line(w) == WorkerStep(w, "line")
Export(w) == WorkerStep(w, "export")
Finish(w) == WorkerStep(w, "finish")

\* Lines 312-318: the workers are joined in the order they were spawned;
\* the first error is the result.  A worker that panicked makes the join
\* (unwrap) or the end of the scope panic.
Join ==
    /\ main = "load"
    /\ \A w \in Workers : workers[w].pc = "done"
    /\ load_result' =
          IF \E w \in Workers : workers[w].res.kind = "Panic"
          THEN Panic("a scoped thread panicked")
          ELSE IF \E w \in Workers : workers[w].res.kind # "Ok"
          THEN workers[CHOOSE w \in Workers :
                          /\ workers[w].res.kind # "Ok"
                          /\ \A v \in 1..(w - 1) : workers[v].res.kind = "Ok"].res
          ELSE Ok
    /\ main' = "loaded"
    /\ UNCHANGED <<symfiles, types, exports, files, next_work_idx, workers, written>>
    /\ UNCHANGED cmpVars
    /\ UNCHANGED <<fnVars, progress, locks>>

\* do_consolidate: a corpus that loaded without error is written.
Write ==
    /\ main = "loaded"
    /\ load_result.kind = "Ok"
    /\ written' = write_consolidated_buffer(Corpus)
    /\ main' = "written"
    /\ UNCHANGED <<symfiles, types, exports, files, next_work_idx, workers, load_result>>
    /\ UNCHANGED cmpVars
    /\ UNCHANGED <<fnVars, progress, locks>>

Next ==
    \/ \E w \in Workers : Fetch(w)
    \/ \E w \in Workers : Open(w)
    \/ \E w \in Workers : Line(w)
    \/ \E w \in Workers : Export(w)
    \/ \E w \in Workers : Finish(w)
    \/ Join
    \/ Write

Spec == Init /\ [][Next]_vars

\* ---------------------------------------------------------------------
\* The load of plain and consolidated files, well-formed or not.

sA0 == sA \o <<"@", "0">>
sA1 == sA \o <<"@", "1">>
Fp == F_PREFIX \o <<"p">>
Fq == F_PREFIX \o <<"q">>

\* The contents a file of such a load can have.  Plain: a type and its
\* export; another variant of the type, an export of its own and the same
\* export again; an export and a line without a word; a type record twice;
\* an export record twice.  Consolidated: two files over two variants; a
\* file whose type is referenced implicitly; a selector whose base name has
\* no record in the file; a selector whose variant has no record in the
\* file; an F# record twice; an F# record that lists an export twice; an
\* implicit reference to a type without a record.
MixedMenu ==
    { FileText(<< <<sA, wI>>, <<wE, sA>> >>),
      FileText(<< <<sA, wJ>>, <<wF, wI>>, <<wE, sA>> >>),
      FileText(<< <<wG, wI>>, << >> >>),
      FileText(<< <<sA, wI>>, <<sA, wJ>> >>),
      FileText(<< <<wG, wI>>, <<wG, wJ>> >>),
      FileText(<< <<sA0, wI>>, <<sA1, wJ>>, <<wE, sA>>, <<wG, sA>>,
                  <<Fp, sA0, wE>>, <<Fq, sA1, wG>> >>),
      FileText(<< <<sA, wI>>, <<wF, sA>>, <<Fp, wF>> >>),
      FileText(<< <<wF, sA>>, <<Fp, sA, wF>> >>),
      FileText(<< <<sA0, wI>>, <<wF, sA>>, <<Fp, sA1, wF>> >>),
      FileText(<< <<wG, wI>>, <<Fp, wG>>, <<Fp, wG>> >>),
      FileText(<< <<wG, wI>>, <<Fp, wG, wG>> >>),
      FileText(<< <<wG, sA>>, <<Fp, wG>> >>) }

InitMixed ==
    /\ symfiles \in WorkLists(MixedMenu, MaxFiles)
    /\ types = EmptyMap
    /\ exports = EmptyMap
    /\ files = << >>
    /\ next_work_idx = 0
    /\ \E num_workers \in 1..NumWorkers :
          workers = [w \in Workers |->
                        IF w <= num_workers
                        THEN [pc |-> "fetch", l |-> IdleLocals, res |-> None]
                        ELSE [pc |-> "done", l |-> IdleLocals, res |-> Ok]]
    /\ main = "load"
    /\ load_result = None
    /\ written = NoReport
    /\ progress = [load |-> NoProgress(Len(symfiles)), cmp |-> << >>]
    /\ locks = NoLocks
    /\ NoCompare
    /\ NoCall

FileDecl(w) == WorkerStep(w, "decl")
FileSelector(w) == WorkerStep(w, "selector")
FinishDecl(w) == WorkerStep(w, "finish_decl")

\* Lines 498-510: the next record the iteration of records yields is
\* extrapolated.
Extrapolate(w) ==
    /\ workers[w].pc = "load"
    /\ workers[w].l.pc = "extrapolate"
    /\ \E k \in 1..Len(workers[w].l.walk_records) :
          WorkerApply(w, "extrapolate", StepExtrapolateAt(Corpus, workers[w].l, k))
    /\ UNCHANGED locks

NextMixed ==
    \/ \E w \in Workers : Fetch(w)
    \/ \E w \in Workers : Open(w)
    \/ \E w \in Workers : Line(w)
    \/ \E w \in Workers : Export(w)
    \/ \E w \in Workers : Finish(w)
    \/ \E w \in Workers : FileDecl(w)
    \/ \E w \in Workers : FileSelector(w)
    \/ \E w \in Workers : Extrapolate(w)
    \/ \E w \in Workers : FinishDecl(w)
    \/ Join

SpecMixed == InitMixed /\ [][NextMixed]_vars

(***************************************************************************)
(* The comparison of two loaded corpora (compare_with).                    *)
(***************************************************************************)
\* The contents a file of a comparison can have: a chain of types from e or
\* from f over either variant of its leaf, two exports that share a type,
\* the same with a changed leaf and a changed export that keeps one of its
\* two references, an export of a plain type, and an export with a
\* reference that has no record.
CmpMenu ==
    { FileText(<< <<sA, wI>>, <<sB, sA>>, <<wE, sB>> >>),
      FileText(<< <<sA, wJ>>, <<sB, sA>>, <<wE, sB>> >>),
      FileText(<< <<sA, wJ>>, <<sB, sA>>, <<wF, sB>> >>),
      FileText(<< <<sA, wI>>, <<sB, sA>>, <<wF, sB>> >>),
      FileText(<< <<sA, wI>>, <<sB, wI>>, <<wE, sA, sB>>, <<wF, sA>> >>),
      FileText(<< <<sA, wJ>>, <<sB, wJ>>, <<wE, wI, sA>>, <<wF, sA>> >>),
      FileText(<< <<wG, wI>> >>),
      FileText(<< <<sA, wI>>, <<wG, sA, sB>> >>) }

\* The work lists of the load of one corpus of a comparison: up to
\* MaxCmpFiles files of the menu under the first paths of PathMenu, for
\* which the load returns Ok (do_compare compares only then).
CmpLists ==
    {list \in UNION {{[i \in 1..n |-> [path |-> PathMenu[i], lines |-> content[i]]] :
                         content \in [1..n -> CmpMenu]} : n \in 1..MaxCmpFiles} :
        LoadSeq(EmptyCorpus, list, 1).res.kind = "Ok"}

InitCmp ==
    /\ symfiles \in CmpLists
    /\ other_symfiles \in CmpLists
    /\ LET c == LoadSeq(EmptyCorpus, symfiles, 1).c
       IN  /\ types = c.types
           /\ exports = c.exports
           /\ files = c.files
    /\ other_corpus = LoadSeq(EmptyCorpus, other_symfiles, 1).c
    /\ next_work_idx = Len(symfiles) + NumWorkers
    /\ workers = [w \in Workers |-> [pc |-> "done", l |-> IdleLocals, res |-> Ok]]
    /\ main = "compare"
    /\ load_result = Ok
    /\ written = NoReport
    /\ works = << >>
    /\ cmp_next = 0
    /\ cmp_workers = [w \in CmpWorkers |-> IdleCmpWorker]
    /\ changes = EmptyMap
    /\ report = NoReport
    /\ progress = [load |-> AllProgress(Len(symfiles)), cmp |-> << >>]
    /\ locks = NoLocks
    /\ NoCall

\* Lines 1015-1036: the removed and the added lines are written in the
\* order in which the two HashMaps yield their keys, the work list is
\* collected from self.exports in that order, and num_workers workers (at
\* least one) are spawned.
CmpStart ==
    /\ main = "compare"
    /\ \E keys_self \in KeyOrders(exports),
          keys_other \in KeyOrders(other_corpus.exports),
          num_workers \in 1..NumCmpWorkers :
          /\ report' = [res |-> None,
                        lines |-> RemovedAddedLines(keys_self, keys_other,
                                                    Corpus, other_corpus)]
          /\ works' = [k \in 1..Len(keys_self) |->
                          [name |-> keys_self[k], file_idx |-> exports[keys_self[k]]]]
          /\ cmp_workers' = [w \in CmpWorkers |->
                                [IdleCmpWorker EXCEPT !.pc =
                                    IF w <= num_workers THEN "fetch" ELSE "done"]]
    /\ cmp_next' = 0
    /\ changes' = EmptyMap
    /\ main' = "comparing"
    /\ progress' = [progress EXCEPT !.cmp = NoProgress(Cardinality(DOMAIN exports))]
    /\ UNCHANGED <<fnVars, loadVars, other_symfiles, other_corpus>>

\* Where a compare worker continues when it has nothing left to push.
AfterWalk(res) == IF res.kind = "Ok" THEN "fetch" ELSE "panicked"

\* Lines 1038-1056: a worker takes the next index of the work list and
\* walks the types of that export.  The walk reads the two corpora only, so
\* it is one step; its pushes to changes are the steps CmpPush.  A worker
\* that leaves the loop keeps the locals of its last walk.
CmpFetch(w) ==
    /\ main = "comparing"
    /\ cmp_workers[w].pc = "fetch"
    /\ cmp_next' = fetch_add(cmp_next)
    /\ cmp_workers' = [cmp_workers EXCEPT ![w] =
          IF cmp_next >= Len(works)
          THEN [cmp_workers[w] EXCEPT !.pc = "done"]
          ELSE LET work == works[cmp_next + 1]
                   st == CompareExport(Corpus, other_corpus, work.name, work.file_idx)
               IN  [pc |-> IF st.pushes # << >> THEN "push" ELSE AfterWalk(st.res),
                    export |-> work.name, processed |-> st.processed,
                    pending |-> st.pushes, res |-> st.res]]
    /\ progress' =
          IF cmp_next >= Len(works) THEN progress
          ELSE LET st == CompareExport(Corpus, other_corpus, works[cmp_next + 1].name,
                                       works[cmp_next + 1].file_idx)
               IN  [progress EXCEPT
                      !.cmp[cmp_next + 1] =
                          [taken |-> @.taken + 1,
                           finished |-> IF st.pushes = << >> /\ st.res.kind = "Ok"
                                        THEN @.finished + 1 ELSE @.finished]]
    /\ UNCHANGED <<fnVars, loadVars, main, other_symfiles, other_corpus, works, changes, report>>

\* Lines 957-961: a worker adds its export to one entry of changes, under
\* the lock of changes.
CmpPush(w) ==
    /\ main = "comparing"
    /\ cmp_workers[w].pc = "push"
    /\ LET push == Head(cmp_workers[w].pending)
           rest == Tail(cmp_workers[w].pending)
       IN  /\ changes' = PushChange(changes, push.key, push.export)
           /\ cmp_workers' = [cmp_workers EXCEPT ![w] =
                 [@ EXCEPT !.pending = rest,
                           !.pc = IF rest # << >> THEN "push"
                                  ELSE AfterWalk(cmp_workers[w].res)]]
           /\ progress' =
                 IF rest = << >> /\ cmp_workers[w].res.kind = "Ok"
                 THEN [progress EXCEPT
                         !.cmp[CHOOSE k \in 1..Len(works) :
                                  works[k].name = cmp_workers[w].export].finished = @ + 1]
                 ELSE progress
    /\ UNCHANGED <<fnVars, loadVars, main, other_symfiles, other_corpus, works, cmp_next, report>>

\* Lines 1059-1091: the scope ends when every worker has ended.  When a
\* worker panicked the scope panics and the BufWriter, dropped while
\* unwinding, flushes what was written; else the changes are written.
CmpFinish ==
    /\ main = "comparing"
    /\ \A w \in CmpWorkers : cmp_workers[w].pc \in {"done", "panicked"}
    /\ report' =
          IF \E w \in CmpWorkers : cmp_workers[w].pc = "panicked"
          THEN [res |-> Panic("a scoped thread panicked"), lines |-> report.lines]
          ELSE [res |-> Ok, lines |-> report.lines \o ChangeLines(changes)]
    /\ main' = "compared"
    /\ UNCHANGED <<fnVars, loadVars, other_symfiles, other_corpus, works, cmp_next,
                   cmp_workers, changes, progress>>

NextCmp ==
    \/ CmpStart
    \/ \E w \in CmpWorkers : CmpFetch(w)
    \/ \E w \in CmpWorkers : CmpPush(w)
    \/ CmpFinish

SpecCompare == InitCmp /\ [][NextCmp]_vars

\* ---------------------------------------------------------------------
\* The two parallel loops together: a run is a load by the workers of
\* load_symfiles or a comparison by the workers of compare_with.

InitWork == InitMixed \/ InitCmp

NextWork == NextMixed \/ NextCmp

SpecWork == InitWork /\ [][NextWork]_vars

(***************************************************************************)
(* The load with its locks: a worker takes the lock of a statement, runs   *)
(* the statement and drops the guard at the end of its scope.  types is a  *)
(* readers-writer lock, exports and files are mutexes.                     *)
(***************************************************************************)
\* The contents of a file of such a load: two plain files with the same
\* export over two variants of a type, a consolidated file with an
\* implicit reference, and one whose reference has no record.
LocksMenu ==
    { FileText(<< <<sA, wI>>, <<wE, sA>> >>),
      FileText(<< <<sA, wJ>>, <<wE, sA>> >>),
      FileText(<< <<sA, wI>>, <<wF, sA>>, <<Fp, wF>> >>),
      FileText(<< <<wG, sA>>, <<Fp, wG>> >>) }

\* The lock that the statement at l.pc takes: none when the statement
\* returns or continues before it comes to a lock.
LockFor(l) ==
    CASE l.pc = "open" ->
           IF \E i \in 1..Len(l.lines) : starts_with(l.lines[i], F_PREFIX)
           THEN {} ELSE {"files"}
      [] l.pc = "line" ->
           LET words == split_ascii_whitespace(l.lines[l.line_idx + 1])
           IN  IF Len(words) = 0 THEN {}
               ELSE IF words[1] \in l.all_names \/ starts_with(words[1], F_PREFIX)
               THEN {} ELSE {"types.write"}
      [] l.pc = "export" -> IF is_export(l.name) THEN {"exports"} ELSE {}
      [] l.pc = "selector" ->
           LET split == split_type_name(Head(l.words))
           IN  IF ~(split[1] \in DOMAIN l.remap /\ split[2] \in DOMAIN l.remap[split[1]])
               THEN {}
               ELSE IF is_export(split[1]) THEN {"exports"} ELSE {}
      [] l.pc = "extrapolate" -> {"types.read"}
      [] l.pc \in {"finish", "decl", "finish_decl"} -> {"files"}

\* Worker w can take lock: no other worker holds it, readers of types
\* excepted among themselves.
Free(lock, w) ==
    \A v \in Workers \ {w} :
        CASE lock = "types.read" -> "types.write" \notin locks[v].held
          [] lock = "types.write" -> locks[v].held \cap {"types.read", "types.write"} = {}
          [] OTHER -> lock \notin locks[v].held

\* A guard of exports that lives on after the block of lines 606-616.
AfterEntry_kept(held) == held

\* Line 616: the block of the exports guard ends.
AfterEntry(held) == held \ {"exports"}

\* The lock that worker w is about to take.
Wanted(w) ==
    IF locks[w].at = "duplicate" THEN {"files"} ELSE LockFor(workers[w].l)

\* lock() / read() / write(): the worker blocks until the lock is free.
Acquire(w) ==
    /\ main = "load"
    /\ workers[w].pc = "load"
    /\ Wanted(w) # {}
    /\ Wanted(w) \cap locks[w].held = {}
    /\ locks[w].at = "" => locks[w].held = {}
    /\ \A lock \in Wanted(w) : Free(lock, w)
    /\ locks' = [locks EXCEPT ![w].held = @ \cup Wanted(w)]
    /\ UNCHANGED <<symfiles, types, exports, files, next_work_idx, workers, main,
                   load_result, written, progress>>
    /\ UNCHANGED cmpVars
    /\ UNCHANGED fnVars

\* The step at l.pc; k is the record that the iteration yields when the
\* step is an extrapolation.
StepAt(l, k) ==
    IF l.pc = "extrapolate" THEN StepExtrapolateAt(Corpus, l, k) ELSE LoadStep(Corpus, l)

IsDuplicateExport(s) ==
    /\ s.l.pc = "return"
    /\ s.l.res.kind = "Parse"
    /\ s.l.res.msg = "Export is duplicate"

\* The statement at l.pc under its lock, to the end of the scope of the
\* guard.  When try_insert_export finds the entry occupied, the block of
\* the exports guard ends and the worker goes on to lock files.
Critical(w) ==
    /\ main = "load"
    /\ workers[w].pc = "load"
    /\ locks[w].at = ""
    /\ LockFor(workers[w].l) \subseteq locks[w].held
    /\ \E k \in 1..(IF workers[w].l.pc = "extrapolate"
                    THEN Len(workers[w].l.walk_records) ELSE 1) :
          LET s == StepAt(workers[w].l, k)
          IN  IF IsDuplicateExport(s)
              THEN /\ locks' = [locks EXCEPT ![w] = [held |-> AfterEntry(@.held),
                                                     at |-> "duplicate"]]
                   /\ UNCHANGED <<symfiles, types, exports, files, next_work_idx,
                                  workers, main, load_result, written, progress>>
                   /\ UNCHANGED cmpVars
                   /\ UNCHANGED fnVars
              ELSE /\ WorkerApply(w, workers[w].l.pc, s)
                   /\ locks' = [locks EXCEPT ![w] = [held |-> {}, at |-> ""]]

\* Lines 618-627: the paths of the error are read under the files lock and
\* the error is returned.
Duplicate(w) ==
    /\ main = "load"
    /\ workers[w].pc = "load"
    /\ locks[w].at = "duplicate"
    /\ "files" \in locks[w].held
    /\ WorkerApply(w, workers[w].l.pc, LoadStep(Corpus, workers[w].l))
    /\ locks' = [locks EXCEPT ![w] = [held |-> {}, at |-> ""]]

\* The work lists of such a load: up to MaxFiles files of the menu under
\* the first paths of PathMenu.
LockLists ==
    UNION {{[i \in 1..n |-> [path |-> PathMenu[i], lines |-> content[i]]] :
               content \in [1..n -> LocksMenu]} : n \in 1..MaxFiles}

InitLocks ==
    /\ symfiles \in LockLists
    /\ types = EmptyMap
    /\ exports = EmptyMap
    /\ files = << >>
    /\ next_work_idx = 0
    /\ \E num_workers \in 1..NumWorkers :
          workers = [w \in Workers |->
                        IF w <= num_workers
                        THEN [pc |-> "fetch", l |-> IdleLocals, res |-> None]
                        ELSE [pc |-> "done", l |-> IdleLocals, res |-> Ok]]
    /\ main = "load"
    /\ load_result = None
    /\ written = NoReport
    /\ progress = [load |-> NoProgress(Len(symfiles)), cmp |-> << >>]
    /\ locks = NoLocks
    /\ NoCompare
    /\ NoCall

NextLocks ==
    \/ \E w \in Workers : Fetch(w)
    \/ \E w \in Workers : Acquire(w)
    \/ \E w \in Workers : Critical(w)
    \/ \E w \in Workers : Duplicate(w)
    \/ Join

\* The threads are scheduled: the load does not stop while a worker that
\* does not wait for a lock, or the joining thread, can take a step.
SpecLocks ==
    /\ InitLocks
    /\ [][NextLocks]_vars
    /\ WF_vars(NextLocks)

\* ---------------------------------------------------------------------
\* The calls of myers.

lX == <<"X">>
lY == <<"Y">>
lZ == <<"Z">>

\* The sequences of at most n elements of S.
SeqsUpTo(S, n) == UNION {[1..m -> S] : m \in 0..n}

\* No corpus is loaded or compared.
NoLoad ==
    /\ symfiles = << >>
    /\ types = EmptyMap
    /\ exports = EmptyMap
    /\ files = << >>
    /\ next_work_idx = 0
    /\ workers = [w \in Workers |-> [pc |-> "done", l |-> IdleLocals, res |-> Ok]]
    /\ main = "call"
    /\ load_result = None
    /\ written = NoReport
    /\ progress = [load |-> << >>, cmp |-> << >>]
    /\ locks = NoLocks
    /\ NoCompare

\* myers is called with two lists of at most MaxLines lines.
InitMyers ==
    /\ NoLoad
    /\ call \in {[fn |-> "myers", a |-> a, b |-> b] :
                    a \in SeqsUpTo({lX, lY, lZ}, MaxLines),
                    b \in SeqsUpTo({lX, lY, lZ}, MaxLines)}
    /\ ret = None

Myers ==
    /\ call # None
    /\ call.fn = "myers"
    /\ ret = None
    /\ ret' = [edit_script |-> myers(call.a, call.b)]
    /\ UNCHANGED <<call, main, loadVars, cmpVars, progress>>

NextMyers == Myers

SpecMyers == InitMyers /\ [][NextMyers]_vars

\* ---------------------------------------------------------------------
\* The calls of unified.

\* Line i of the first list, and the line that a change puts at line i.
OldLine(i) == <<"v">> \o Decimal(i)
NewLine(i) == <<"n">> \o Decimal(i)

\* The second list: line i of a is kept, removed, replaced by a new line,
\* or has a new line put before it or after it, as ops[i] says.
RECURSIVE ChangedList(_, _, _)
ChangedList(a, ops, i) ==
    IF i > Len(a) THEN << >>
    ELSE (CASE ops[i] = "keep" -> <<a[i]>>
            [] ops[i] = "remove" -> << >>
            [] ops[i] = "replace" -> <<NewLine(i)>>
            [] ops[i] = "insert" -> <<NewLine(i), a[i]>>
            [] ops[i] = "append" -> <<a[i], NewLine(i)>>) \o ChangedList(a, ops, i + 1)

\* The ways to change at most MaxChanges of n lines.
ChangeOps(n) ==
    UNION {{[i \in 1..n |-> IF \E j \in 1..m : at[j] = i
                            THEN kinds[CHOOSE j \in 1..m : at[j] = i]
                            ELSE "keep"] :
               at \in {s \in [1..m -> 1..n] : \A j \in 1..(m - 1) : s[j] < s[j + 1]},
               kinds \in [1..m -> {"remove", "replace", "insert", "append"}]} :
           m \in 0..MaxChanges}

\* unified is called with a list of at most MaxDiffLines distinct lines and
\* a list that changes at most MaxChanges of them, with or without a new
\* line before them all.
InitUnified ==
    /\ NoLoad
    /\ call \in UNION {{[fn |-> "unified", a |-> [i \in 1..n |-> OldLine(i)],
                         b |-> head \o ChangedList([i \in 1..n |-> OldLine(i)], ops, 1)] :
                           ops \in ChangeOps(n), head \in {<< >>, <<NewLine(0)>>}} :
                      n \in 0..MaxDiffLines}
    /\ ret = None

Unified ==
    /\ call # None
    /\ call.fn = "unified"
    /\ ret = None
    /\ ret' = [hunks |-> WriteHunkCalls(call.a, call.b),
               lines |-> unified(call.a, call.b)]
    /\ UNCHANGED <<call, main, loadVars, cmpVars, progress>>

NextUnified == Unified

SpecUnified == InitUnified /\ [][NextUnified]_vars

\* ---------------------------------------------------------------------
\* The calls of pretty_format_type.

\* The words of a type: the brackets, the separators, a plain word and a
\* reference to a type.
PrettyWords == {<<"{">>, <<"}">>, <<"(">>, <<")">>, <<";">>, <<",">>, wI, sA}

\* pretty_format_type is called with at most MaxTokens tokens.
InitPretty ==
    /\ NoLoad
    /\ call \in {[fn |-> "pretty_format_type", tokens |-> words_into_tokens(words)] :
                    words \in SeqsUpTo(PrettyWords, MaxTokens)}
    /\ ret = None

Pretty ==
    /\ call # None
    /\ call.fn = "pretty_format_type"
    /\ ret = None
    /\ ret' = [lines |-> pretty_format_type(call.tokens)]
    /\ UNCHANGED <<call, main, loadVars, cmpVars, progress>>

NextPretty == Pretty

SpecPretty == InitPretty /\ [][NextPretty]_vars

\* ---------------------------------------------------------------------
\* The calls of the three walks over the references of a type:
\* consolidate_type, compare_types and extrapolate_file_record.

\* The contents of the file of a walk: two types that reference each
\* other, a type that references itself, types referenced twice and from
\* several places, the same with other leaves, and a chain without cycle.
WalkMenu ==
    { FileText(<< <<sA, sB>>, <<sB, sA>>, <<wG, sA>> >>),
      FileText(<< <<sA, sA>>, <<wG, sA>> >>),
      FileText(<< <<sA, sB, sB>>, <<sB, sA, wI>>, <<wG, sA, sB>> >>),
      FileText(<< <<sA, wI>>, <<wG, sA, sA>> >>),
      FileText(<< <<sA, sB, wI>>, <<sB, sA, wJ>>, <<wG, sB>> >>),
      FileText(<< <<sA, sA, wJ>>, <<wG, sA>> >>),
      FileText(<< <<sA, wI>>, <<sB, sA, sB>>, <<wG, sB, sA>> >>),
      FileText(<< <<sA, sB>>, <<sB, wI>>, <<wG, sA>> >>) }

\* The corpus after the load of one file of the menu.
WalkCorpora == {load_buffer(EmptyCorpus, PathMenu[1], lines).c : lines \in WalkMenu}

\* A walk is called from a name of the file of a corpus; compare_types with
\* a second corpus whose file has the name too; extrapolate_file_record as
\* load_inner calls it, for a name that the F# record lists.
InitWalks ==
    /\ NoLoad
    /\ call \in
          {[fn |-> "consolidate_type", corpus |-> c, name |-> name] :
              c \in WalkCorpora, name \in {sA, sB, wG}}
          \cup {[fn |-> "compare_types", corpus |-> c, other |-> d, name |-> name] :
                  c \in WalkCorpora, d \in WalkCorpora, name \in {sA, sB, wG}}
          \cup {[fn |-> "extrapolate_file_record", corpus |-> c, name |-> name] :
                  c \in WalkCorpora, name \in {sA, sB, wG}}
    /\ call.name \in DOMAIN call.corpus.files[1].records
    /\ call.fn = "compare_types" => call.name \in DOMAIN call.other.files[1].records
    /\ ret = None

\* Lines 830-835: consolidate_type is called with the types processed for
\* the file so far, here none.
WalkConsolidate ==
    /\ call # None
    /\ call.fn = "consolidate_type"
    /\ ret = None
    /\ ret' = consolidate_type(call.corpus, call.corpus.files[1], call.name,
                               [output_types |-> EmptyMap, processed_types |-> EmptyMap,
                                res |-> Ok, expanded |-> << >>])
    /\ UNCHANGED <<call, main, loadVars, cmpVars, progress>>

\* Lines 1047-1055: compare_types is called with an empty set of processed
\* names.
WalkCompare ==
    /\ call # None
    /\ call.fn = "compare_types"
    /\ ret = None
    /\ ret' = compare_types([corpus |-> call.corpus, file |-> call.corpus.files[1]],
                            [corpus |-> call.other, file |-> call.other.files[1]],
                            call.name, call.name,
                            [processed |-> {}, pushes |-> << >>, res |-> Ok,
                             expanded |-> << >>])
    /\ UNCHANGED <<call, main, loadVars, cmpVars, progress>>

\* Lines 498-510: extrapolate_file_record is called for a record that the
\* caller has added to records.
WalkExtrapolate ==
    /\ call # None
    /\ call.fn = "extrapolate_file_record"
    /\ ret = None
    /\ ret' = extrapolate_file_record(PathMenu[1], PathMenu[1], call.name,
                                      call.corpus.files[1].records[call.name], TRUE,
                                      call.corpus.types,
                                      Put(EmptyMap, call.name,
                                          call.corpus.files[1].records[call.name]))
    /\ UNCHANGED <<call, main, loadVars, cmpVars, progress>>

NextWalks ==
    \/ WalkConsolidate
    \/ WalkCompare
    \/ WalkExtrapolate

SpecWalks == InitWalks /\ [][NextWalks]_vars

(***************************************************************************)
(* The command line of ksymtypes (main.rs).  An argument is a sequence of  *)
(* characters.  The run is cut into the options before the command and the *)
(* command; what the loads and the writer do is an input of the run: the   *)
(* paths whose load fails and whether writing fails.                       *)
(***************************************************************************)
aHelp == <<"-", "h">>
aUnknown == <<"-", "x">>
aConsolidate == <<"c", "o", "n", "s", "o", "l", "i", "d", "a", "t", "e">>
aCompare == <<"c", "o", "m", "p", "a", "r", "e">>
aJobs == <<"-", "j">>
aJobsLong == <<"-", "-", "j", "o", "b", "s">>
aJobs0 == <<"-", "j", "0">>
aTwo == <<"2">>
aDashDash == <<"-", "-">>
aPathA == <<"a">>
aPathB == <<"b">>
aOutput == <<"-", "o">>
aOutputLong == <<"-", "-", "o", "u", "t", "p", "u", "t">>
aDash == <<"-">>

\* The exit code of a process whose main thread panicked.
EXIT_PANIC == 101

\* The words of a command line.
ArgMenu ==
    {aHelp, aUnknown, aConsolidate, aCompare, aJobs, aJobs0, aTwo, aDashDash, aPathA,
     aPathB, aOutput}

\* str::parse::<i32>: an optional sign and at least one digit.
RECURSIVE DigitsValue(_, _)
DigitsValue(chars, acc) ==
    IF chars = << >> THEN acc
    ELSE DigitsValue(Tail(chars),
                     10 * acc + (CHOOSE d \in 0..9 : Digit(d) = Head(chars)))

parse_i32(chars) ==
    LET signed == chars # << >> /\ Head(chars) \in {"+", "-"}
        digits == IF signed THEN Tail(chars) ELSE chars
    IN  IF digits = << >> \/ \E i \in 1..Len(digits) : \A d \in 0..9 : Digit(d) # digits[i]
        THEN [ok |-> FALSE, value |-> 0]
        ELSE [ok |-> TRUE,
              value |-> IF signed /\ Head(chars) = "-"
                        THEN 0 - DigitsValue(digits, 0) ELSE DigitsValue(digits, 0)]

\* handle_value_option: the value of the option short or long when arg is
\* that option; args are the arguments after arg.
handle_value_option(arg, args, short, long) ==
    IF arg = short \/ arg = long
    THEN IF args = << >>
         THEN [ok |-> FALSE, some |-> FALSE, value |-> << >>, args |-> args]
         ELSE [ok |-> TRUE, some |-> TRUE, value |-> Head(args), args |-> Tail(args)]
    ELSE IF starts_with(arg, short)
    THEN [ok |-> TRUE, some |-> TRUE, value |-> SubSeq(arg, Len(short) + 1, Len(arg)),
          args |-> args]
    ELSE IF starts_with(arg, long \o <<"=">>)
    THEN [ok |-> TRUE, some |-> TRUE, value |-> SubSeq(arg, Len(long) + 2, Len(arg)),
          args |-> args]
    ELSE [ok |-> TRUE, some |-> FALSE, value |-> << >>, args |-> args]

\* handle_jobs_option: the number of workers, which must be positive.
handle_jobs_option(arg, args) ==
    LET r == handle_value_option(arg, args, aJobs, aJobsLong)
    IN  IF ~r.ok \/ ~r.some THEN [r EXCEPT !.value = 0]
        ELSE IF ~parse_i32(r.value).ok \/ parse_i32(r.value).value < 1
        THEN [r EXCEPT !.ok = FALSE, !.value = 0]
        ELSE [r EXCEPT !.value = parse_i32(r.value).value]

\* collect_operands: an option after the operands is an error unless the
\* arguments follow "--".
RECURSIVE collect_operands(_, _, _)
collect_operands(args, past_dash_dash, operands) ==
    IF args = << >> THEN [ok |-> TRUE, operands |-> operands]
    ELSE IF ~past_dash_dash /\ starts_with(Head(args), aDash)
    THEN [ok |-> FALSE, operands |-> operands]
    ELSE collect_operands(Tail(args), past_dash_dash, Append(operands, Head(args)))

\* What a command gives back to main: the exit code, and how far it came.
Done(exit, stage, paths, num_workers) ==
    [pc |-> "exit", exit |-> exit, stage |-> stage, paths |-> paths,
     num_workers |-> num_workers, args |-> << >>]

\* Lines 178-206 and 275-297: the loop over the options of a command.
\* with_output tells whether the command has the option -o.
RECURSIVE CommandOptions(_, _, _)
CommandOptions(args, num_workers, with_output) ==
    IF args = << >>
    THEN [ok |-> TRUE, help |-> FALSE, args |-> args, num_workers |-> num_workers,
          past_dash_dash |-> FALSE, paths |-> << >>]
    ELSE LET arg == Head(args)
             o == handle_value_option(arg, Tail(args), aOutput, aOutputLong)
             rest == IF with_output THEN o.args ELSE Tail(args)
             j == handle_jobs_option(arg, Tail(args))
             stop == [ok |-> TRUE, help |-> FALSE, args |-> Tail(args),
                      num_workers |-> num_workers, past_dash_dash |-> FALSE,
                      paths |-> << >>]
         IN  IF with_output /\ ~o.ok THEN [stop EXCEPT !.ok = FALSE]
             ELSE IF with_output /\ o.some
             THEN CommandOptions(o.args, num_workers, with_output)
             ELSE IF ~j.ok THEN [stop EXCEPT !.ok = FALSE]
             ELSE IF j.some THEN CommandOptions(j.args, j.value, with_output)
             ELSE IF arg = aHelp THEN [stop EXCEPT !.help = TRUE]
             ELSE IF arg = aDashDash THEN [stop EXCEPT !.past_dash_dash = TRUE]
             ELSE IF starts_with(arg, aDash) THEN [stop EXCEPT !.ok = FALSE]
             ELSE [stop EXCEPT !.paths = <<arg>>]

\* do_consolidate: env.bad_paths are the paths whose load fails,
\* env.write_ok tells whether the output can be written.
do_consolidate(args, env) ==
    LET o == CommandOptions(args, 1, TRUE)
        c == collect_operands(o.args, o.past_dash_dash, o.paths)
    IN  IF ~o.ok THEN Done(1, "options", << >>, o.num_workers)
        ELSE IF o.help THEN Done(0, "help", << >>, o.num_workers)
        ELSE IF ~c.ok THEN Done(1, "operands", c.operands, o.num_workers)
        ELSE IF Len(c.operands) = 0 THEN Done(1, "operands", c.operands, o.num_workers)
        ELSE IF Range(c.operands) \cap env.bad_paths # {}
        THEN Done(1, "load", c.operands, o.num_workers)
        ELSE IF ~env.write_ok THEN Done(1, "write", c.operands, o.num_workers)
        ELSE Done(0, "write", c.operands, o.num_workers)

\* do_compare.  Lines 309-314: the message about the number of sources is
\* printed and the function goes on; paths[0] and paths[1] are then
\* indexed, which panics when they are missing.  Line 344: what
\* compare_with returns is dropped.
do_compare(args, env) ==
    LET o == CommandOptions(args, 1, FALSE)
        c == collect_operands(o.args, o.past_dash_dash, o.paths)
    IN  IF ~o.ok THEN Done(1, "options", << >>, o.num_workers)
        ELSE IF o.help THEN Done(0, "help", << >>, o.num_workers)
        ELSE IF ~c.ok THEN Done(1, "operands", c.operands, o.num_workers)
        ELSE IF Len(c.operands) < 1
        THEN Done(EXIT_PANIC, "load", c.operands, o.num_workers)
        ELSE IF c.operands[1] \in env.bad_paths
        THEN Done(1, "load", c.operands, o.num_workers)
        ELSE IF Len(c.operands) < 2
        THEN Done(EXIT_PANIC, "load", c.operands, o.num_workers)
        ELSE IF c.operands[2] \in env.bad_paths
        THEN Done(1, "load", c.operands, o.num_workers)
        ELSE Done(0, "write", c.operands, o.num_workers)

\* Lines 362-400 of main: the options before the command.
RECURSIVE GlobalOptions(_)
GlobalOptions(args) ==
    IF args = << >> THEN Done(1, "global", << >>, 1)
    ELSE IF Head(args) = aHelp THEN Done(0, "global", << >>, 1)
    ELSE IF starts_with(Head(args), aDash) THEN Done(1, "global", << >>, 1)
    ELSE [pc |-> "command", exit |-> 0, stage |-> Head(args), paths |-> << >>,
          num_workers |-> 1, args |-> Tail(args)]

\* A run of ksymtypes with at most MaxArgs arguments after the program
\* name.
InitMain ==
    /\ NoLoad
    /\ call \in {[fn |-> "main", args |-> args,
                  env |-> [bad_paths |-> bad, write_ok |-> w]] :
                    args \in SeqsUpTo(ArgMenu, MaxArgs),
                    bad \in SUBSET {aPathA, aPathB}, w \in BOOLEAN}
    /\ ret = None

MainOptions ==
    /\ call # None
    /\ call.fn = "main"
    /\ ret = None
    /\ ret' = GlobalOptions(call.args)
    /\ UNCHANGED <<call, main, loadVars, cmpVars, progress>>

\* Lines 403-424: the command is run and the process exits.
MainCommand(command, r) ==
    /\ call # None
    /\ call.fn = "main"
    /\ ret # None
    /\ ret.pc = "command"
    /\ ret.stage = command
    /\ ret' = r
    /\ UNCHANGED <<call, main, loadVars, cmpVars, progress>>

MainConsolidate == MainCommand(aConsolidate, do_consolidate(ret.args, call.env))

MainCompare == MainCommand(aCompare, do_compare(ret.args, call.env))

MainUnrecognized ==
    /\ call # None
    /\ call.fn = "main"
    /\ ret # None
    /\ ret.pc = "command"
    /\ ret.stage \notin {aConsolidate, aCompare}
    /\ ret' = Done(1, "command", << >>, 1)
    /\ UNCHANGED <<call, main, loadVars, cmpVars, progress>>

NextMain ==
    \/ MainOptions
    \/ MainConsolidate
    \/ MainCompare
    \/ MainUnrecognized

SpecMain == InitMain /\ [][NextMain]_vars

(***************************************************************************)
(* What a corpus means, stated without the walks of the source.            *)
(***************************************************************************)
TypeRefs(tokens) == {tokens[i].text : i \in {j \in 1..Len(tokens) : tokens[j].typeref}}

\* The token stream that file f selects for name.
SelectedTokens(c, f, name) == c.types[name][f.records[name] + 1]

FileExports(f) == {name \in DOMAIN f.records : is_export(name)}

\* The names reachable from the set S along the TypeRefs of file f.
RECURSIVE ReachFrom(_, _, _)
ReachFrom(c, f, S) ==
    LET T == S \cup UNION {TypeRefs(SelectedTokens(c, f, name)) :
                              name \in S \cap DOMAIN f.records}
    IN  IF T = S THEN S ELSE ReachFrom(c, f, T)

\* The names that the exports of file f reach.
Reached(c, f) == ReachFrom(c, f, FileExports(f))

\* Every name that the exports of a file reach has a record in that file.
Closed(c) ==
    \A i \in 1..Len(c.files) : Reached(c, c.files[i]) \subseteq DOMAIN c.files[i].records

TokenMap(c, f, names) == [name \in names |-> SelectedTokens(c, f, name)]

ExportPaths(c) == [e \in DOMAIN c.exports |-> c.files[c.exports[e] + 1].path]

Paths(c) == {c.files[i].path : i \in 1..Len(c.files)}

NoBlankPaths(c) == \A i \in 1..Len(c.files) : " " \notin Range(c.files[i].path)

\* Corpus d has the files of corpus c, each with the token streams that c
\* selects for the names in Names(c, f).
SameFiles(c, d, Names(_, _)) ==
    /\ Len(c.files) = Len(d.files)
    /\ \A i \in 1..Len(c.files) : \E j \in 1..Len(d.files) :
          /\ d.files[j].path = c.files[i].path
          /\ DOMAIN d.files[j].records \subseteq DOMAIN d.types
          /\ TokenMap(d, d.files[j], DOMAIN d.files[j].records)
                = TokenMap(c, c.files[i], Names(c, c.files[i]))

AllRecords(c, f) == DOMAIN f.records

\* The path label under which the written lines are loaded again.
OutPath == <<"o">>

Reloaded == load_buffer(EmptyCorpus, OutPath, written.lines)

(***************************************************************************)
(* C1  Round trip.                                                         *)
(***************************************************************************)
\* C1, as claimed: a corpus built by successful loads of plain files, written
\* with write_consolidated_buffer and loaded into an empty corpus, gives the
\* same exports (each in a file of the same path) and, for every file path,
\* the same mapping from type name to selected token stream.
C1_RoundTripAllRecords ==
    main = "written" =>
        /\ written.res.kind = "Ok"
        /\ Reloaded.res.kind = "Ok"
        /\ ExportPaths(Reloaded.c) = ExportPaths(Corpus)
        /\ SameFiles(Corpus, Reloaded.c, AllRecords)

\* C1, amended: for plain files under distinct paths without blanks, the
\* write panics when a name reachable from an export has no record in its
\* file, and otherwise the round trip gives the same exports (each in a file
\* of the same path), the same paths and, for every path, the same mapping
\* from type name to selected token stream over the names that the exports
\* of the file reach.
C1_RoundTripReachable ==
    (main = "written" /\ NoBlankPaths(Corpus)) =>
        IF Closed(Corpus)
        THEN /\ written.res.kind = "Ok"
             /\ Reloaded.res.kind = "Ok"
             /\ ExportPaths(Reloaded.c) = ExportPaths(Corpus)
             /\ SameFiles(Corpus, Reloaded.c, Reached)
        ELSE written.res.kind = "Panic"

\* C1, witness: a written corpus of two files with two variants of a type,
\* one of them in a record that no export reaches.
C1_Witness ==
    /\ main = "written"
    /\ written.res.kind = "Ok"
    /\ NoBlankPaths(Corpus)
    /\ Len(files) = 2
    /\ \E name \in DOMAIN types : Len(types[name]) >= 2
    /\ \E i \in 1..Len(files) : Reached(Corpus, files[i]) # DOMAIN files[i].records

(***************************************************************************)
(* The written text, read back by position: the type records come first,   *)
(* then one F# record per file in the order of the paths.                  *)
(***************************************************************************)
TypeLines == SubSeq(written.lines, 1, Len(written.lines) - Len(files))

ManifestLines == SubSeq(written.lines, Len(written.lines) - Len(files) + 1,
                        Len(written.lines))

\* The position of file i among the files in the order of their paths.
PathRank(i) == 1 + Cardinality({j \in 1..Len(files) : StrLess(files[j].path, files[i].path)})

\* The words after the first of the F# record of file i.
ManifestWords(i) == Range(Tail(split_ascii_whitespace(ManifestLines[PathRank(i)])))

\* The files whose exports reach name.
ReachingFiles(name) == {i \in 1..Len(files) : name \in Reached(Corpus, files[i])}

ReachedNames == UNION {Reached(Corpus, files[i]) : i \in 1..Len(files)}

\* The variants of name that the files reaching it select.
Variants(name) == {SelectedTokens(Corpus, files[i], name) : i \in ReachingFiles(name)}

\* The rank of the first file, in the order of the paths, that selects v.
FirstRank(name, v) ==
    LET ranks == {PathRank(i) : i \in {j \in ReachingFiles(name) :
                                          SelectedTokens(Corpus, files[j], name) = v}}
    IN  CHOOSE r \in ranks : \A q \in ranks : r <= q

\* The number of variants of name seen before v.
FirstSeenIndex(name, v) ==
    Cardinality({u \in Variants(name) : FirstRank(name, u) < FirstRank(name, v)})

\* A type record as read from its line: base name, suffix, tokens.
ReadRecord(line) ==
    LET words == split_ascii_whitespace(line)
    IN  [name |-> split_type_name(words[1])[1],
         suffix |-> split_type_name(words[1])[2],
         tokens |-> words_into_tokens(Tail(words))]

\* The type records written for name.
RecordsOf(name) == {k \in 1..Len(TypeLines) : ReadRecord(TypeLines[k]).name = name}

(***************************************************************************)
(* C2  Variants are numbered in first-seen order.                          *)
(***************************************************************************)
\* C2: if the files that reach a type name select n >= 2 distinct variants,
\* the output has exactly the n records name@0 .. name@(n-1), numbered in
\* first-seen order over the files sorted by path, and the F# record of each
\* such file lists name@K for the record that carries its variant.
C2_VariantsNumbered ==
    (main = "written" /\ written.res.kind = "Ok") =>
        \A name \in ReachedNames :
            LET n == Cardinality(Variants(name))
            IN  n >= 2 =>
                  /\ Cardinality(RecordsOf(name)) = n
                  /\ \A v \in Variants(name) : \E k \in RecordsOf(name) :
                        /\ ReadRecord(TypeLines[k]).suffix = Decimal(FirstSeenIndex(name, v))
                        /\ ReadRecord(TypeLines[k]).tokens = v
                  /\ {FirstSeenIndex(name, v) : v \in Variants(name)} = 0..(n - 1)
                  /\ \A i \in ReachingFiles(name) :
                        \E k \in RecordsOf(name) :
                           /\ ReadRecord(TypeLines[k]).tokens
                                 = SelectedTokens(Corpus, files[i], name)
                           /\ name \o <<"@">> \o ReadRecord(TypeLines[k]).suffix
                                 \in ManifestWords(i)
                           /\ \A w \in ManifestWords(i) :
                                 split_type_name(w)[1] = name
                                    => split_type_name(w)[2] = ReadRecord(TypeLines[k]).suffix

\* C2, witness: two variants of a type were written and the file that comes
\* second by path was pushed to files first.
C2_Witness ==
    /\ main = "written"
    /\ written.res.kind = "Ok"
    /\ \E name \in ReachedNames : Cardinality(Variants(name)) >= 2
    /\ Len(files) >= 2
    /\ StrLess(files[2].path, files[1].path)

(***************************************************************************)
(* C3  Single variants are written once and left out of the F# records.    *)
(***************************************************************************)
\* C3: if every file that reaches a type name selects the same variant, the
\* output has exactly one record for the name, without a suffix, and no F#
\* record lists the name unless it is an export; every export of a file is
\* listed in the F# record of that file.
C3_SingleVariantOmitted ==
    (main = "written" /\ written.res.kind = "Ok") =>
        /\ \A name \in ReachedNames :
              Cardinality(Variants(name)) = 1 =>
                 /\ Cardinality(RecordsOf(name)) = 1
                 /\ \A k \in RecordsOf(name) :
                       /\ split_ascii_whitespace(TypeLines[k])[1] = name
                       /\ ReadRecord(TypeLines[k]).tokens \in Variants(name)
                 /\ ~is_export(name) =>
                       \A i \in 1..Len(files) : \A w \in ManifestWords(i) :
                           split_type_name(w)[1] # name
        /\ \A i \in 1..Len(files) : \A e \in FileExports(files[i]) :
              \E w \in ManifestWords(i) : split_type_name(w)[1] = e

\* C3, witness: two files were written that reach the same type, which is
\* not an export, and select the same variant of it.
C3_Witness ==
    /\ main = "written"
    /\ written.res.kind = "Ok"
    /\ Len(files) = 2
    /\ \E name \in ReachedNames :
          /\ ~is_export(name)
          /\ ReachingFiles(name) = {1, 2}
          /\ Cardinality(Variants(name)) = 1

(***************************************************************************)
(* C4  The written text does not depend on the interleaving.               *)
(***************************************************************************)
Reverse(s) == [i \in 1..Len(s) |-> s[Len(s) + 1 - i]]

CommonExports == DOMAIN exports \cap DOMAIN other_corpus.exports

\* The files that define the export e in the two corpora.
SelfFile(e) == files[exports[e] + 1]
OtherFile(e) == other_corpus.files[other_corpus.exports[e] + 1]

\* Both files of e have a record of n.
Defined(e, n) ==
    /\ n \in DOMAIN SelfFile(e).records
    /\ n \in DOMAIN OtherFile(e).records

TokA(e, n) == SelectedTokens(Corpus, SelfFile(e), n)
TokB(e, n) == SelectedTokens(other_corpus, OtherFile(e), n)

\* The two files of e select different token streams for n.
Differ(e, n) == Defined(e, n) /\ TokA(e, n) # TokB(e, n)

\* The names reachable from e by a chain of TypeRefs along which every
\* parent has the same token stream in both files.
RECURSIVE EqualChain(_, _)
EqualChain(e, S) ==
    LET T == S \cup UNION {TypeRefs(TokA(e, p)) :
                              p \in {x \in S : Defined(e, x) /\ ~Differ(e, x)}}
    IN  IF T = S THEN S ELSE EqualChain(e, T)

\* The names a parent p hands on: all it references when its two token
\* streams are equal, else those that both streams reference.
HandedOn(e, p) ==
    IF ~Defined(e, p) THEN {}
    ELSE IF Differ(e, p) THEN TypeRefs(TokA(e, p)) \cap TypeRefs(TokB(e, p))
    ELSE TypeRefs(TokA(e, p))

\* The least set with e that is closed under HandedOn.
RECURSIVE VisitedFrom(_, _)
VisitedFrom(e, S) ==
    LET T == S \cup UNION {HandedOn(e, p) : p \in S}
    IN  IF T = S THEN S ELSE VisitedFrom(e, T)

Visited(e) == VisitedFrom(e, {e})

IsText(item) == item.kind = "line"

\* The position of the first blank line of lines at or after i (one past
\* the end when there is none).
RECURSIVE NextBlank(_, _)
NextBlank(lines, i) ==
    IF i > Len(lines) \/ lines[i] = TextLine(<< >>) THEN i ELSE NextBlank(lines, i + 1)

\* The change blocks of lines from position i, each with the positions of
\* its first and last line, the count and the exports of its head, the
\* name of its changed type and the two token streams of its diff.
RECURSIVE ReadBlocks(_, _)
ReadBlocks(lines, i) ==
    IF i > Len(lines) THEN << >>
    ELSE IF ~(IsText(lines[i]) /\ starts_with(lines[i].text, THE_FOLLOWING_Q))
    THEN ReadBlocks(lines, i + 1)
    ELSE LET blank == NextBlank(lines, i)
             head == lines[i].text
             because == lines[blank + 1].text
         IN  <<[first |-> i, last |-> blank + 2,
                count |-> SubSeq(head, Len(THE_FOLLOWING_Q) + 1,
                                 Len(head) - Len(EXPORTS_ARE_DIFFERENT)),
                exports |-> [k \in 1..(blank - i - 1) |-> Tail(lines[i + k].text)],
                name |-> SubSeq(because, Len(BECAUSE_OF_A_CHANGED_Q) + 1,
                                Len(because) - Len(Q_COLON)),
                tokens |-> lines[blank + 2].tokens,
                other_tokens |-> lines[blank + 2].other_tokens]>>
             \o ReadBlocks(lines, blank + 3)

Blocks == ReadBlocks(report.lines, 1)

\* The report has a block for the change of n between the files of e, and
\* the block names e.
HasBlock(n, e) ==
    \E k \in 1..Len(Blocks) :
        /\ Blocks[k].name = n
        /\ Blocks[k].tokens = TokA(e, n)
        /\ Blocks[k].other_tokens = TokB(e, n)
        /\ e \in Range(Blocks[k].exports)

(***************************************************************************)
(* C5  A change below equal parents is reported.                           *)
(***************************************************************************)
\* C5: in the report of a comparison that returned, for every export e of
\* both corpora and every type n reachable from e by a chain of TypeRefs
\* whose parents have equal token streams in the two files of e: if the two
\* files select different token streams for n, the report has a block for n
\* that names e.
C5_ChangeBelowEqualParents ==
    report.res.kind = "Ok" =>
        \A e \in CommonExports : \A n \in EqualChain(e, {e}) :
            Differ(e, n) => HasBlock(n, e)

\* C5, witness: a report with a block for a type n that has two variants in
\* the corpus, changed below an export e whose own tokens and whose child's
\* tokens are the same in both corpora.
C5_Witness ==
    /\ report.res.kind = "Ok"
    /\ \E e \in CommonExports : \E n \in EqualChain(e, {e}) :
          /\ ~Differ(e, e)
          /\ n \notin TypeRefs(TokA(e, e))
          /\ Differ(e, n)
          /\ Len(types[n]) >= 2
          /\ HasBlock(n, e)

(***************************************************************************)
(* C6  Below a changed parent the walk follows the common references.      *)
(***************************************************************************)
\* C6: the names a finished walk of an export e has processed are e and the
\* names handed on by processed names, where a parent with two different
\* token streams hands on exactly the names that are a TypeRef in both,
\* whatever their positions; and in the report of a comparison that
\* returned, the blocks that name e are those of the changed names among
\* them.
C6_CommonReferencesFollowed ==
    /\ \A w \in CmpWorkers :
          (cmp_workers[w].export \in CommonExports /\ cmp_workers[w].res.kind = "Ok")
              => cmp_workers[w].processed = Visited(cmp_workers[w].export)
    /\ report.res.kind = "Ok" =>
          /\ \A e \in CommonExports : \A n \in Visited(e) :
                Differ(e, n) => HasBlock(n, e)
          /\ \A k \in 1..Len(Blocks) : \A e \in Range(Blocks[k].exports) :
                /\ e \in CommonExports
                /\ Blocks[k].name \in Visited(e)

\* C6, witness: a report where an export e changed, a type n that both
\* versions of e reference at different positions changed too and has a
\* block naming e, and a type m that only one version of e references has
\* changed as well but was not processed and has no block.
C6_Witness ==
    /\ report.res.kind = "Ok"
    /\ \E w \in CmpWorkers : \E n, m \in DOMAIN types :
          LET e == cmp_workers[w].export
          IN  /\ e \in CommonExports
              /\ Differ(e, e)
              /\ \E i, j \in 1..Len(TokA(e, e)) :
                    /\ i # j
                    /\ j <= Len(TokB(e, e))
                    /\ TokA(e, e)[i] = [typeref |-> TRUE, text |-> n]
                    /\ TokB(e, e)[j] = [typeref |-> TRUE, text |-> n]
              /\ Differ(e, n)
              /\ HasBlock(n, e)
              /\ m \in TypeRefs(TokA(e, e)) \ TypeRefs(TokB(e, e))
              /\ Differ(e, m)
              /\ m \notin cmp_workers[w].processed
              /\ \A k \in 1..Len(Blocks) : Blocks[k].name # m

(***************************************************************************)
(* C7  The removed and the added lines.                                    *)
(***************************************************************************)
\* The lines of the report about single exports, in the order written.
ExportLinesWritten ==
    SelectSeq(report.lines,
              LAMBDA item : IsText(item) /\ starts_with(item.text, EXPORT_Q))

\* One line for each name of the set S, in the lexicographic order of the
\* names.
SortedExportLines(S, change) ==
    LET sorted == SortSet(S, StrLess)
    IN  [k \in 1..Len(sorted) |-> TextLine(EXPORT_Q \o sorted[k] \o change)]

\* C7: once compare_with has written the lines about single exports, they
\* are one removed line for each export of self that other lacks, in
\* lexicographic order of the names, followed by one added line for each
\* export of other that self lacks, in lexicographic order of the names.
C7_RemovedAddedSorted ==
    main \in {"comparing", "compared"} =>
        ExportLinesWritten =
            SortedExportLines(DOMAIN exports \ DOMAIN other_corpus.exports,
                              HAS_BEEN_REMOVED)
            \o SortedExportLines(DOMAIN other_corpus.exports \ DOMAIN exports,
                                 HAS_BEEN_ADDED)

(***************************************************************************)
(* C8  The change blocks do not depend on the workers.                     *)
(***************************************************************************)
\* The order of the keys (name, tokens, other_tokens) of two blocks.
BlockLess(x, y) ==
    \/ StrLess(x.name, y.name)
    \/ /\ x.name = y.name
       /\ \/ TokensLess(x.tokens, y.tokens)
          \/ x.tokens = y.tokens /\ TokensLess(x.other_tokens, y.other_tokens)

\* The changes between the two corpora: every changed type that the walk of
\* some common export reaches, with the exports whose walks reach it with
\* the same two token streams.
ExpectedChanges ==
    {[name |-> p[2], tokens |-> TokA(p[1], p[2]), other_tokens |-> TokB(p[1], p[2]),
      exports |-> {x \in CommonExports :
                      /\ p[2] \in Visited(x)
                      /\ Differ(x, p[2])
                      /\ TokA(x, p[2]) = TokA(p[1], p[2])
                      /\ TokB(x, p[2]) = TokB(p[1], p[2])}] :
        p \in {q \in CommonExports \X DOMAIN types :
                  q[2] \in Visited(q[1]) /\ Differ(q[1], q[2])}}

\* C8: in the report of a comparison that returned, whatever the number of
\* workers and their interleaving, the blocks are the changes between the
\* two corpora, in strictly ascending order of (name, tokens, other
\* tokens); the first block follows the lines about single exports, one
\* blank line separates consecutive blocks; the exports of a block are in
\* strictly ascending order and their number is the count of its head.
C8_BlocksDeterministic ==
    report.res.kind = "Ok" =>
        /\ {[name |-> Blocks[k].name, tokens |-> Blocks[k].tokens,
             other_tokens |-> Blocks[k].other_tokens,
             exports |-> Range(Blocks[k].exports)] : k \in 1..Len(Blocks)}
              = ExpectedChanges
        /\ \A k \in 1..(Len(Blocks) - 1) :
              /\ BlockLess(Blocks[k], Blocks[k + 1])
              /\ report.lines[Blocks[k].last + 1] = TextLine(<< >>)
              /\ Blocks[k + 1].first = Blocks[k].last + 2
        /\ Len(Blocks) > 0 =>
              /\ Blocks[1].first = Len(ExportLinesWritten) + 1
              /\ Blocks[Len(Blocks)].last = Len(report.lines)
        /\ Len(Blocks) = 0 => Len(report.lines) = Len(ExportLinesWritten)
        /\ \A k \in 1..Len(Blocks) :
              /\ Blocks[k].count = Decimal(Len(Blocks[k].exports))
              /\ \A i \in 1..(Len(Blocks[k].exports) - 1) :
                    StrLess(Blocks[k].exports[i], Blocks[k].exports[i + 1])

\* C8, witness: a report with two blocks, one of them with two exports that
\* two workers pushed in descending order.
C8_Witness ==
    /\ report.res.kind = "Ok"
    /\ Len(Blocks) >= 2
    /\ \E key \in DOMAIN changes :
          /\ Len(changes[key]) >= 2
          /\ StrLess(changes[key][2], changes[key][1])
          /\ \E v, w \in CmpWorkers :
                /\ v # w
                /\ cmp_workers[v].export = changes[key][1]
                /\ cmp_workers[w].export = changes[key][2]

(***************************************************************************)
(* C9  Equal corpora compare to nothing.                                   *)
(***************************************************************************)
\* The two corpora were loaded from files of the same contents.
IdenticalContent ==
    /\ Len(symfiles) = Len(other_symfiles)
    /\ {symfiles[i].lines : i \in 1..Len(symfiles)}
          = {other_symfiles[i].lines : i \in 1..Len(other_symfiles)}

\* C9: a comparison of a corpus with itself, or with a corpus loaded from
\* files of the same contents (in any order, under any paths), writes
\* nothing, for any number of workers.
C9_IdenticalWritesNothing ==
    IdenticalContent => report.lines = << >>

\* C9, witness: a finished comparison without output of two corpora loaded
\* from the same two files in opposite orders, so that a type has its two
\* variants in opposite orders; both corpora are walked through that type.
C9_Witness ==
    /\ main = "compared"
    /\ report = [res |-> Ok, lines |-> << >>]
    /\ IdenticalContent
    /\ symfiles # other_symfiles
    /\ \E name \in DOMAIN types :
          /\ Len(types[name]) = 2
          /\ other_corpus.types[name] = Reverse(types[name])
          /\ \E w \in CmpWorkers : name \in cmp_workers[w].processed

(***************************************************************************)
(* C10  The variants of a type are distinct.                               *)
(***************************************************************************)
\* C10: in every state of a load, every type name in types has at least one
\* variant and no two variants of a name have equal token streams.
C10_VariantsDistinct ==
    \A name \in DOMAIN types :
        /\ Len(types[name]) >= 1
        /\ \A i, j \in 1..Len(types[name]) :
              types[name][i] = types[name][j] => i = j

\* C10, witness: two workers are loading; for one name their merge_type
\* calls have appended two variants, for another name the second call has
\* found the variant of the first.
C10_Witness ==
    /\ \A w \in Workers : workers[w].pc = "load"
    /\ \E name \in DOMAIN types :
          /\ Len(types[name]) >= 2
          /\ \A w \in Workers : name \in DOMAIN workers[w].l.records
    /\ \E name \in DOMAIN types :
          /\ Len(types[name]) = 1
          /\ \A w \in Workers : name \in DOMAIN workers[w].l.records

(***************************************************************************)
(* C11                                                                     *)
(***************************************************************************)
\* C11: in every state of the corpus that load calls reach (plain or
\* consolidated files, one worker or several, loads that succeed, fail or
\* are still running), every entry (name, variant_idx) of the records of
\* every file has a name that is a key of types and a variant_idx below the
\* number of variants of that name.
C11_RecordsValid ==
    \A i \in 1..Len(files) :
        \A name \in DOMAIN files[i].records :
            /\ name \in DOMAIN types
            /\ files[i].records[name] >= 0
            /\ files[i].records[name] < Len(types[name])

\* C11, witness: a load has failed with a parse error; the files it stored
\* before hold a record of a second variant, and a file of an F# record
\* holds a record that no selector named.
C11_Witness ==
    /\ main = "loaded"
    /\ load_result.kind = "Parse"
    /\ \E i \in 1..Len(files) : \E name \in DOMAIN files[i].records :
          files[i].records[name] = 1
    /\ \E i \in 1..Len(files) :
          /\ files[i].path = <<"p">>
          /\ wF \in DOMAIN files[i].records
          /\ sA \in DOMAIN files[i].records
          /\ \E k \in 1..Len(symfiles) :
                symfiles[k].lines = FileText(<< <<sA, wI>>, <<wF, sA>>, <<Fp, wF>> >>)

(***************************************************************************)
(* C12                                                                     *)
(***************************************************************************)
\* The exports of the corpus are backed: every key is an export name, its
\* file index is an index of files, and it is a key of the records of that
\* file.
ExportsBacked ==
    \A e \in DOMAIN exports :
        /\ is_export(e)
        /\ exports[e] >= 0
        /\ exports[e] < Len(files)
        /\ e \in DOMAIN files[exports[e] + 1].records

\* C12, as stated: in every state of the corpus after a load call has
\* returned, with Ok or with a parse error, the exports are backed.
C12_ExportsBackedAfterReturn ==
    (main = "loaded" /\ load_result.kind \in {"Ok", "Parse"}) => ExportsBacked

\* C12, amended: in every state every key of exports is an export name
\* whose file index is an index of files; after a load call that returned
\* Ok every key of exports is also a key of the records of its file.
C12_ExportsBackedAfterOk ==
    /\ \A e \in DOMAIN exports :
          is_export(e) /\ exports[e] >= 0 /\ exports[e] < Len(files)
    /\ (main = "loaded" /\ load_result.kind = "Ok") => ExportsBacked

\* C12, witness: a load of a plain and a consolidated file has returned Ok
\* and has registered exports in three files.
C12_Witness ==
    /\ main = "loaded"
    /\ load_result.kind = "Ok"
    /\ \E e1, e2, e3 \in DOMAIN exports :
          /\ exports[e1] # exports[e2]
          /\ exports[e1] # exports[e3]
          /\ exports[e2] # exports[e3]

(***************************************************************************)
(* C16                                                                     *)
(***************************************************************************)
\* Worker w is about to call try_insert_export with an export name: for the
\* record of a plain file, or for a selector of an F# record that the file
\* defines.
Registering(w) ==
    /\ main = "load"
    /\ workers[w].pc = "load"
    /\ LET l == workers[w].l
       IN  \/ l.pc = "export" /\ is_export(l.name)
           \/ /\ l.pc = "selector"
              /\ LET split == split_type_name(Head(l.words))
                 IN  /\ split[1] \in DOMAIN l.remap
                     /\ split[2] \in DOMAIN l.remap[split[1]]
                     /\ is_export(split[1])

\* The name of that call.
RegisteredName(w) ==
    IF workers[w].l.pc = "export" THEN workers[w].l.name
    ELSE split_type_name(Head(workers[w].l.words))[1]

\* The load of worker w has just failed over a duplicate export.
DuplicateExport(w) ==
    /\ workers'[w].pc = "done"
    /\ workers'[w].res.kind = "Parse"
    /\ workers'[w].res.msg = "Export is duplicate"

\* C16: a registration of an export fails exactly when the name is already
\* registered under a different file_idx; the failure cites the name and
\* the path of the file of the earlier registration; a registration never
\* changes an entry that exists, a failing one changes nothing at all, a
\* successful one makes the entry of the name.
C16_DuplicateExactlyOtherFile ==
    [][\A w \in Workers :
          (Registering(w) /\ workers'[w] # workers[w]) =>
             LET n == RegisteredName(w) IN
             /\ DuplicateExport(w) <=>
                   (n \in DOMAIN exports /\ exports[n] # workers[w].l.file_idx)
             /\ DuplicateExport(w) =>
                   /\ workers'[w].res.name = n
                   /\ workers'[w].res.other = files[exports[n] + 1].path
                   /\ exports' = exports
             /\ n \in DOMAIN exports => exports'[n] = exports[n]
             /\ ~DuplicateExport(w) =>
                   /\ n \in DOMAIN exports'
                   /\ exports'[n] = workers[w].l.file_idx]_vars

(***************************************************************************)
(* C17                                                                     *)
(***************************************************************************)
\* The first word of a line, << >> when the line has none.
FirstWord(line) ==
    LET words == split_ascii_whitespace(line)
    IN  IF Len(words) = 0 THEN << >> ELSE words[1]

\* Worker w is about to read a line whose first word is the first word of
\* an earlier line of its file.
AtRepeatedWord(w) ==
    /\ main = "load"
    /\ workers[w].pc = "load"
    /\ workers[w].l.pc = "line"
    /\ LET l == workers[w].l
       IN  /\ FirstWord(l.lines[l.line_idx + 1]) # << >>
           /\ \E j \in 1..l.line_idx :
                 FirstWord(l.lines[j]) = FirstWord(l.lines[l.line_idx + 1])

\* The load of worker w has just failed with the error msg.
FailedWith(w, msg) ==
    /\ workers'[w].pc = "done"
    /\ workers'[w].res.kind = "Parse"
    /\ workers'[w].res.msg = msg

\* C17: when the load of a file comes to a line whose first word (the name
\* of a type record, an export record or an F# record) is the first word of
\* an earlier line, it returns the parse error 'Duplicate record' with the
\* path of the file, the 1-based number of that line and the word; no other
\* line gives this error.
C17_DuplicateRecord ==
    [][\A w \in Workers :
          (/\ main = "load"
           /\ workers[w].pc = "load"
           /\ workers[w].l.pc = "line"
           /\ workers'[w] # workers[w]) =>
             LET l == workers[w].l IN
             /\ FailedWith(w, "Duplicate record") <=> AtRepeatedWord(w)
             /\ FailedWith(w, "Duplicate record") =>
                   /\ workers'[w].res.path = l.path
                   /\ workers'[w].res.line = l.line_idx + 1
                   /\ workers'[w].res.name = FirstWord(l.lines[l.line_idx + 1])
                   /\ l.line_idx + 1 >= 2
                   /\ types' = types /\ exports' = exports /\ files' = files]_vars

\* C17, witness: the load of the file with two F# records of one name has
\* failed at its third line.
C17_Witness ==
    \E w \in Workers :
        /\ workers[w].pc = "done"
        /\ workers[w].res.kind = "Parse"
        /\ workers[w].res.msg = "Duplicate record"
        /\ workers[w].res.name = Fp
        /\ workers[w].res.line = 3

(***************************************************************************)
(* C18                                                                     *)
(***************************************************************************)
\* A record of the file lines that is no F# record defines the base name
\* and the suffix of selector.
DefinedInFile(lines, selector) ==
    \E j \in 1..Len(lines) :
        /\ FirstWord(lines[j]) # << >>
        /\ ~starts_with(FirstWord(lines[j]), F_PREFIX)
        /\ split_type_name(FirstWord(lines[j])) = split_type_name(selector)

\* C18: when the load of a consolidated file comes to a selector of an F#
\* record, it returns the parse error "Type '<selector>' is not known" with
\* the path of the consolidated file and the 1-based line of the F# record
\* exactly when no record of that same file defines the base name and the
\* suffix of the selector, whatever the corpus holds from other files.
C18_UnknownSelector ==
    [][\A w \in Workers :
          (/\ main = "load"
           /\ workers[w].pc = "load"
           /\ workers[w].l.pc = "selector"
           /\ workers'[w] # workers[w]) =>
             LET l == workers[w].l
                 selector == Head(l.words)
             IN  /\ FailedWith(w, "Type is not known") <=>
                       ~DefinedInFile(l.lines, selector)
                 /\ FailedWith(w, "Type is not known") =>
                       /\ workers'[w].res.path = l.path
                       /\ workers'[w].res.name = selector
                       /\ workers'[w].res.line >= 1
                       /\ workers'[w].res.line <= Len(l.lines)
                       /\ LET words == split_ascii_whitespace(l.lines[workers'[w].res.line])
                          IN  /\ starts_with(words[1], F_PREFIX)
                              /\ \E k \in 2..Len(words) : words[k] = selector]_vars

\* C18, witness: a load has failed over the selector s#a of a file without
\* a record of s#a, while types holds s#a from another file.
C18_Witness ==
    \E w \in Workers :
        /\ workers[w].pc = "done"
        /\ workers[w].res.kind = "Parse"
        /\ workers[w].res.msg = "Type is not known"
        /\ workers[w].res.name = sA
        /\ sA \in DOMAIN types

(***************************************************************************)
(* C19                                                                     *)
(***************************************************************************)
\* C19: every parse error that ends the load of a file carries the path of
\* that file and the 1-based number of the line the load was at, whatever
\* its kind (missing record name, duplicate record, unknown type in an F#
\* record, implicit reference to a type with several variants, duplicate
\* export).
C19_ErrorsCitePathAndLine ==
    [][\A w \in Workers :
          (/\ main = "load"
           /\ workers[w].pc = "load"
           /\ workers'[w].pc = "done"
           /\ workers'[w].res.kind = "Parse") =>
             /\ workers'[w].res.path = workers[w].l.path
             /\ workers'[w].res.line = workers[w].l.line_idx + 1
             /\ workers'[w].res.line >= 1
             /\ workers'[w].res.line <= Len(workers[w].l.lines)]_vars

(***************************************************************************)
(* C13                                                                     *)
(***************************************************************************)
\* The indices of the steps of script whose op is one of ops, in the order
\* of the script.
RECURSIVE IndicesOf(_, _)
IndicesOf(script, ops) ==
    IF script = << >> THEN << >>
    ELSE IF Head(script).op \in ops
    THEN <<Head(script).index>> \o IndicesOf(Tail(script), ops)
    ELSE IndicesOf(Tail(script), ops)

\* What the replay of script over a and b produces: a KeepA copies a line
\* of a, an InsertB a line of b, a RemoveA nothing.
RECURSIVE Replay(_, _, _)
Replay(script, a, b) ==
    IF script = << >> THEN << >>
    ELSE LET e == Head(script)
             rest == Replay(Tail(script), a, b)
         IN  CASE e.op = "KeepA" -> <<a[e.index + 1]>> \o rest
               [] e.op = "InsertB" -> <<b[e.index + 1]>> \o rest
               [] OTHER -> rest

\* The number of lines of b that the first n steps of script produce.
Produced(script, n) == Len(IndicesOf(SubSeq(script, 1, n), {"KeepA", "InsertB"}))

\* script transforms a into b.
Transforms(script, a, b) ==
    /\ \A n \in 1..Len(script) : script[n].op \in {"KeepA", "RemoveA", "InsertB"}
    /\ IndicesOf(script, {"KeepA", "RemoveA"}) = [i \in 1..Len(a) |-> i - 1]
    /\ LET ins == IndicesOf(script, {"InsertB"})
       IN  /\ \A i \in 1..Len(ins) : ins[i] >= 0 /\ ins[i] < Len(b)
           /\ \A i \in 1..(Len(ins) - 1) : ins[i] < ins[i + 1]
    /\ \A n \in 1..Len(script) :
          /\ script[n].op = "KeepA" =>
                /\ Produced(script, n) <= Len(b)
                /\ a[script[n].index + 1] = b[Produced(script, n)]
          /\ script[n].op = "InsertB" => script[n].index = Produced(script, n) - 1
    /\ Replay(script, a, b) = b

\* C13: for every two lists a and b, the script that myers(a, b) returns
\* transforms a into b: the indices of its KeepA and RemoveA steps are
\* 0..|a|-1 in increasing order, the indices of its InsertB steps are
\* increasing and within b, every KeepA(i) stands where the line it keeps
\* equals the line of b it produces, and the replay of the script produces
\* b.
C13_ScriptTransforms ==
    (call # None /\ call.fn = "myers" /\ ret # None) =>
        Transforms(ret.edit_script, call.a, call.b)

\* C13, witness: myers has returned a script with all three kinds of steps
\* for two lists of the full length that differ.
C13_Witness ==
    /\ call # None
    /\ call.fn = "myers"
    /\ ret # None
    /\ Len(call.a) = MaxLines
    /\ Len(call.b) = MaxLines
    /\ \A op \in {"KeepA", "RemoveA", "InsertB"} :
          \E n \in 1..Len(ret.edit_script) : ret.edit_script[n].op = op

(***************************************************************************)
(* C15                                                                     *)
(***************************************************************************)
\* The script of n steps made by step, over the indices 0..n-1.
StepsOver(step(_), n) == [i \in 1..n |-> step(i - 1)]

\* C15: myers(a, a) is KeepA(0), ..., KeepA(|a|-1); for an empty a the
\* script is InsertB(0), ..., InsertB(|b|-1); for an empty b it is
\* RemoveA(0), ..., RemoveA(|a|-1); for two empty lists it is empty.
C15_Degenerate ==
    (call # None /\ call.fn = "myers" /\ ret # None) =>
        /\ call.a = call.b => ret.edit_script = StepsOver(KeepA, Len(call.a))
        /\ call.a = << >> => ret.edit_script = StepsOver(InsertB, Len(call.b))
        /\ call.b = << >> => ret.edit_script = StepsOver(RemoveA, Len(call.a))
        /\ (call.a = << >> /\ call.b = << >>) => ret.edit_script = << >>

\* C15, witness: myers has returned for two equal lists of the full length
\* that hold a line twice.
C15_Witness ==
    /\ call # None
    /\ call.fn = "myers"
    /\ ret # None
    /\ call.a = call.b
    /\ Len(call.a) = MaxLines
    /\ call.a[1] = call.a[MaxLines]

(***************************************************************************)
(* C14                                                                     *)
(***************************************************************************)
\* The line that unified writes for a step of the edit script.
EditLine(a, b, edit) ==
    CASE edit.op = "KeepA" -> Prefixed(" ", a[edit.index + 1])
      [] edit.op = "RemoveA" -> Prefixed("-", a[edit.index + 1])
      [] edit.op = "InsertB" -> Prefixed("+", b[edit.index + 1])

IsContext(line) == line[1] = " "

\* The number of context lines with which the lines data begin, and end.
RECURSIVE Leading(_)
Leading(data) ==
    IF data = << >> \/ ~IsContext(Head(data)) THEN 0 ELSE 1 + Leading(Tail(data))

Trailing(data) == Leading(Reverse(data))

\* The positions of the changes (RemoveA, InsertB) in script.
ChangesAt(script) == {n \in 1..Len(script) : script[n].op # "KeepA"}

\* The changes p < q that follow each other in script are separated by at
\* most 2 * CONTEXT_SIZE unchanged lines.
Near(p, q) == q - p - 1 <= 2 * CONTEXT_SIZE

\* The hunk (its number) that holds the change at position p of script:
\* one more than the number of far gaps before p.
HunkOf(script, p) ==
    1 + Cardinality({q \in ChangesAt(script) :
                        /\ q <= p
                        /\ \E r \in ChangesAt(script) :
                              /\ r < q
                              /\ ~Near(r, q)
                              /\ \A t \in ChangesAt(script) : ~(r < t /\ t < q)})

\* The first and the last position in script of the changes of hunk h.
FirstOf(script, h) ==
    CHOOSE p \in ChangesAt(script) :
        HunkOf(script, p) = h /\ \A q \in ChangesAt(script) : HunkOf(script, q) = h => p <= q
LastOf(script, h) ==
    CHOOSE p \in ChangesAt(script) :
        HunkOf(script, p) = h /\ \A q \in ChangesAt(script) : HunkOf(script, q) = h => q <= p

\* C14: in the output of unified(a, b) every hunk begins with at most 3 and
\* ends with at most 3 context lines; changes that at most 6 unchanged
\* lines separate are in one hunk together with all the lines between
\* them; changes that more than 6 unchanged lines separate are in two
\* hunks, the first of which ends with 3 context lines and the second of
\* which begins with 3 (each hunk is the stretch of the edit script from up
\* to 3 steps before its first change to up to 3 steps after its last).
C14_HunkContext ==
    (call # None /\ call.fn = "unified" /\ ret # None) =>
        LET script == myers(call.a, call.b)
            lines == [n \in 1..Len(script) |-> EditLine(call.a, call.b, script[n])]
            count == IF ChangesAt(script) = {} THEN 0
                     ELSE HunkOf(script, CHOOSE p \in ChangesAt(script) :
                                             \A q \in ChangesAt(script) : q <= p)
        IN  /\ Len(ret.hunks) = count
            /\ \A h \in 1..Len(ret.hunks) :
                  LET data == ret.hunks[h].hunk_data
                      first == FirstOf(script, h)
                      last == LastOf(script, h)
                      from == IF h = 1 /\ first <= CONTEXT_SIZE THEN 1
                              ELSE first - CONTEXT_SIZE
                      to == IF h = count /\ last + CONTEXT_SIZE > Len(script)
                            THEN Len(script) ELSE last + CONTEXT_SIZE
                  IN  /\ Leading(data) <= 3
                      /\ Trailing(data) <= 3
                      /\ data = SubSeq(lines, from, to)
                      /\ h > 1 => Leading(data) = 3
                      /\ h < count => Trailing(data) = 3

\* C14, witness: unified has written two hunks for two changes that seven
\* unchanged lines separate, and the first hunk begins with 3 context lines
\* although more lines precede its change.
C14_Witness ==
    /\ call # None
    /\ call.fn = "unified"
    /\ ret # None
    /\ Len(ret.hunks) = 2
    /\ Leading(ret.hunks[1].hunk_data) = 3
    /\ ret.hunks[1].hunk_pos_a > 1
    /\ ret.hunks[2].hunk_pos_a = ret.hunks[1].hunk_pos_a + ret.hunks[1].hunk_len_a + 1

(***************************************************************************)
(* C20                                                                     *)
(***************************************************************************)
\* The nesting depth after the first n of tokens: an opening bracket adds
\* one, a closing bracket takes one away unless the depth is 0.
RECURSIVE DepthAfter(_, _)
DepthAfter(tokens, n) ==
    IF n = 0 THEN 0
    ELSE LET d == DepthAfter(tokens, n - 1)
         IN  CASE IsOpening(tokens[n].text) -> d + 1
               [] IsClosing(tokens[n].text) -> IF d > 0 THEN d - 1 ELSE 0
               [] OTHER -> d

\* Token k opens a line: it is the first token, a closing bracket, or the
\* token after an opening bracket, a semicolon or a comma.
OpensLine(tokens, k) ==
    \/ k = 1
    \/ IsClosing(tokens[k].text)
    \/ IsOpening(tokens[k - 1].text)
    \/ tokens[k - 1].text \in {<<";">>, <<",">>}

\* The depth at which token k opens its line: a closing bracket is counted
\* before its own line.
DepthOfLine(tokens, k) ==
    IF IsClosing(tokens[k].text) THEN DepthAfter(tokens, k) ELSE DepthAfter(tokens, k - 1)

\* line starts with exactly d tabs.
StartsWithTabs(line, d) ==
    /\ Len(line) > d
    /\ \A i \in 1..d : line[i] = TAB
    /\ line[d + 1] # TAB

\* C20: pretty_format_type returns for every token stream (no error, no
\* panic), with one line for every token that opens a line, and each line
\* starts with exactly d tabs, d being the nesting depth when the line is
\* opened: the opening brackets before it less the closing brackets before
\* it, a closing bracket that opens the line included, never below 0.
C20_IndentIsDepth ==
    (call # None /\ call.fn = "pretty_format_type" /\ ret # None) =>
        LET tokens == call.tokens
            openers == SortSet({k \in 1..Len(tokens) : OpensLine(tokens, k)},
                               LAMBDA x, y : x < y)
        IN  /\ Len(ret.lines) = Len(openers)
            /\ \A j \in 1..Len(openers) :
                  StartsWithTabs(ret.lines[j], DepthOfLine(tokens, openers[j]))

\* C20, witness: a type with nested brackets and a closing bracket too
\* many has been printed; it has a line at depth 2 and a line of a closing
\* bracket at depth 0 that follows a line at depth 0.
C20_Witness ==
    /\ call # None
    /\ call.fn = "pretty_format_type"
    /\ ret # None
    /\ \E j \in 1..Len(ret.lines) : StartsWithTabs(ret.lines[j], 2)
    /\ \E k \in 2..Len(call.tokens) :
          /\ IsClosing(call.tokens[k].text)
          /\ DepthAfter(call.tokens, k - 1) = 0

(***************************************************************************)
(* C26                                                                     *)
(***************************************************************************)
\* The number that the decimal digits chars write.
RECURSIVE ReadDecimal(_)
ReadDecimal(chars) ==
    IF chars = << >> THEN 0
    ELSE 10 * ReadDecimal(SubSeq(chars, 1, Len(chars) - 1))
         + (CHOOSE d \in 0..9 : Digit(d) = chars[Len(chars)])

\* The position of the comma in chars.
CommaAt(chars) == CHOOSE i \in 1..Len(chars) : chars[i] = ","

\* The position and the length that a word "-pos,len" or "+pos,len" of a
\* hunk header writes.
ReadRange(word) ==
    [pos |-> ReadDecimal(SubSeq(word, 2, CommaAt(word) - 1)),
     len |-> ReadDecimal(SubSeq(word, CommaAt(word) + 1, Len(word)))]

IsHeader(line) == line[1] = "@"

\* The hunks that the written lines hold: for each header its two ranges
\* and the lines up to the next header.
ReadHunks(lines) ==
    LET at == SortSet({i \in 1..Len(lines) : IsHeader(lines[i])}, LAMBDA x, y : x < y)
    IN  [k \in 1..Len(at) |->
            LET words == split_ascii_whitespace(lines[at[k]])
                end == IF k < Len(at) THEN at[k + 1] - 1 ELSE Len(lines)
            IN  [a |-> ReadRange(words[2]), b |-> ReadRange(words[3]),
                 sign_a |-> words[2][1], sign_b |-> words[3][1],
                 frame |-> <<words[1], words[4]>>,
                 body |-> SubSeq(lines, at[k] + 1, end)]]

\* The lines of body that carry one of signs, without their sign.
RECURSIVE BodyLines(_, _)
BodyLines(body, signs) ==
    IF body = << >> THEN << >>
    ELSE IF Head(body)[1] \in signs
    THEN <<Tail(Head(body))>> \o BodyLines(Tail(body), signs)
    ELSE BodyLines(Tail(body), signs)

\* C26: every hunk that unified(a, b) writes has the header
\* '@@ -pos_a,len_a +pos_b,len_b @@' in which len_a is the number of its
\* lines with ' ' or '-' and len_b the number of its lines with ' ' or '+';
\* those lines are the lines of a from pos_a on and the lines of b from
\* pos_b on (1-based; a list without a line in the hunk is empty and has
\* position 1); the hunks come in increasing position and do not overlap,
\* and the lines of a and b outside the hunks are the same.
C26_HeaderMatchesBody ==
    (call # None /\ call.fn = "unified" /\ ret # None) =>
        LET hunks == ReadHunks(ret.lines)
        IN  /\ ret.lines # << >> => IsHeader(ret.lines[1])
            /\ \A k \in 1..Len(hunks) :
                  LET h == hunks[k]
                      in_a == BodyLines(h.body, {" ", "-"})
                      in_b == BodyLines(h.body, {" ", "+"})
                  IN  /\ h.frame = <<AT_AT, AT_AT>>
                      /\ h.sign_a = "-" /\ h.sign_b = "+"
                      /\ h.body # << >>
                      /\ h.a.len = Len(in_a)
                      /\ h.b.len = Len(in_b)
                      /\ h.a.pos >= 1 /\ h.b.pos >= 1
                      /\ in_a = SubSeq(call.a, h.a.pos, h.a.pos + h.a.len - 1)
                      /\ in_b = SubSeq(call.b, h.b.pos, h.b.pos + h.b.len - 1)
                      /\ h.a.len = 0 => call.a = << >>
                      /\ h.b.len = 0 => call.b = << >>
                      /\ LET end_a == IF k = 1 THEN 1 ELSE hunks[k - 1].a.pos + hunks[k - 1].a.len
                             end_b == IF k = 1 THEN 1 ELSE hunks[k - 1].b.pos + hunks[k - 1].b.len
                         IN  /\ h.a.pos >= end_a
                             /\ h.b.pos >= end_b
                             /\ k > 1 => h.a.pos > hunks[k - 1].a.pos /\ h.b.pos > hunks[k - 1].b.pos
                             /\ h.a.pos - end_a = h.b.pos - end_b
                             /\ SubSeq(call.a, end_a, h.a.pos - 1) = SubSeq(call.b, end_b, h.b.pos - 1)
            /\ LET end_a == IF hunks = << >> THEN 1 ELSE hunks[Len(hunks)].a.pos + hunks[Len(hunks)].a.len
                   end_b == IF hunks = << >> THEN 1 ELSE hunks[Len(hunks)].b.pos + hunks[Len(hunks)].b.len
               IN  SubSeq(call.a, end_a, Len(call.a)) = SubSeq(call.b, end_b, Len(call.b))

\* C26, witness: unified has written two hunks; the second begins at a line
\* of a with a two-digit number and at another line of b.
C26_Witness ==
    /\ call # None
    /\ call.fn = "unified"
    /\ ret # None
    /\ Len(ReadHunks(ret.lines)) = 2
    /\ ReadHunks(ret.lines)[2].a.pos >= 10
    /\ ReadHunks(ret.lines)[2].a.pos # ReadHunks(ret.lines)[2].b.pos
    /\ ReadHunks(ret.lines)[2].a.len # ReadHunks(ret.lines)[2].b.len

\* ---------------------------------------------------------------------
\* C22: whatever the number of workers and the interleaving, no index of
\* the work list of a load or of a comparison is taken by two workers or
\* taken twice, and when no item fails every index of the list has been
\* taken and finished exactly once when the load or the comparison returns.

AtMostOnce(p) == \A i \in DOMAIN p : p[i].taken <= 1 /\ p[i].finished <= p[i].taken

C22_EachIndexOnce ==
    /\ AtMostOnce(progress.load)
    /\ AtMostOnce(progress.cmp)
    /\ (main = "loaded" /\ load_result.kind = "Ok")
          => progress.load = AllProgress(Len(symfiles))
    /\ (main = "compared" /\ report.res.kind = "Ok")
          => progress.cmp = AllProgress(Len(works))

\* A load of two files by two workers has returned Ok, each worker having
\* loaded a file, and a comparison of two exports by two workers has ended.
C22_Witness ==
    \/ /\ main = "loaded"
       /\ load_result.kind = "Ok"
       /\ Len(symfiles) = 2
       /\ next_work_idx = Len(symfiles) + NumWorkers
       /\ Len(files) = 2
    \/ /\ main = "compared"
       /\ report.res.kind = "Ok"
       /\ Len(works) >= 2
       /\ cmp_next >= Len(works) + 2

\* ---------------------------------------------------------------------
\* C23: during a parallel load a worker stops only when the shared work
\* index has passed the end of the work list, so that every file has been
\* attempted by some worker when load returns, even when an earlier file
\* produced an error, for every number of workers.

Attempted(i) == progress.load[i].taken >= 1

\* As stated: whenever load has returned, every file was attempted.
C23_EveryFileAttempted ==
    main = "loaded" => \A i \in 1..Len(symfiles) : Attempted(i)

\* As the code does it: a worker stops when the index it took is past the
\* end of the list, or when the file it was loading failed; every file was
\* attempted when load returns Ok.
StopsAtEnd(w) ==
    /\ workers[w].pc = "fetch"
    /\ next_work_idx >= Len(symfiles)
    /\ workers'[w].res = Ok

StopsOnFailure(w) ==
    /\ workers[w].pc = "load"
    /\ workers'[w].res.kind \in {"Parse", "Panic"}

C23_StopsAtEndOrOnFailure ==
    [][/\ \A w \in Workers :
            (workers[w].pc # "done" /\ workers'[w].pc = "done")
               => (StopsAtEnd(w) \/ StopsOnFailure(w))
       /\ (main' = "loaded" /\ load_result'.kind = "Ok")
               => \A i \in 1..Len(symfiles) : progress'.load[i].taken >= 1]_vars

\* The load of two files by one worker has returned the error of the first
\* file, and the second file was never attempted.
C23_Witness ==
    /\ main = "loaded"
    /\ load_result.kind = "Parse"
    /\ Len(symfiles) = 2
    /\ Attempted(1)
    /\ ~Attempted(2)

\* ---------------------------------------------------------------------
\* C29: the load of any consolidated file ends by returning Ok or an error
\* value and never aborts; when a type selected by an F# record references
\* a type name that has no record in the corpus, load returns a parse
\* error and does not fail on the unwrap or on the assertions of
\* extrapolate_file_record.

C29_LoadNeverAborts ==
    /\ \A w \in Workers : workers[w].res.kind # "Panic"
    /\ main = "loaded" => load_result.kind \in {"Ok", "Parse"}

\* ---------------------------------------------------------------------
\* C30: for a fixed set of input files that includes a consolidated file,
\* whether load returns Ok or an error is the same for every load order and
\* every interleaving: the multi-variant check of the extrapolation gives
\* the same outcome whether the merge_type of the same name by another file
\* runs before or after it.

\* The outcome of the run in which one worker loads the files in the order
\* of the list.
InOrderOutcome == LoadSeq(EmptyCorpus, symfiles, 1).res.kind

\* Every run that returns Ok or a parse error returns what the run of one
\* worker over the same files returns, when that is Ok or a parse error.
C30_OutcomeIndependentOfOrder ==
    (/\ main = "loaded"
     /\ load_result.kind \in {"Ok", "Parse"}
     /\ InOrderOutcome \in {"Ok", "Parse"})
        => load_result.kind = InOrderOutcome

\* ---------------------------------------------------------------------
\* C28: after loads that all returned Ok, in every file every TypeRef of
\* the token stream selected for a name of its records names a type that
\* has a record in the same file; hence write_consolidated never reaches
\* the panic for a type that is not known in a file.

ReferencesResolved(c) ==
    \A i \in 1..Len(c.files) : \A name \in DOMAIN c.files[i].records :
        TypeRefs(SelectedTokens(c, c.files[i], name)) \subseteq DOMAIN c.files[i].records

C28_ReferencesResolved ==
    /\ (main \in {"loaded", "written"} /\ load_result.kind = "Ok")
          => ReferencesResolved(Corpus)
    /\ main = "written" => written.res.kind # "Panic"

\* ---------------------------------------------------------------------
\* C25: after a consolidated file was loaded successfully, the file of each
\* of its F# records holds the names the record lists, each with the index
\* of the variant the selector names, and every type name reached from
\* their selected token streams along TypeRefs, each of these implicit
\* names with variant index 0; and no implicit name has more than one
\* variant in the corpus, since the load fails with a parse error whenever
\* one has.

\* The lines of a file that are F# records.
FileRecordLines(lines) ==
    {j \in 1..Len(lines) : starts_with(FirstWord(lines[j]), F_PREFIX)}

\* The base names of the selectors of the F# record in line.
ExplicitNames(line) ==
    {split_type_name(sel)[1] : sel \in Range(Tail(split_ascii_whitespace(line)))}

\* The tokens that the record of lines which defines selector declares.
DeclaredTokens(lines, selector) ==
    LET j == CHOOSE j \in 1..Len(lines) :
                 /\ ~starts_with(FirstWord(lines[j]), F_PREFIX)
                 /\ split_type_name(FirstWord(lines[j])) = split_type_name(selector)
    IN  words_into_tokens(Tail(split_ascii_whitespace(lines[j])))

\* File f holds what the F# record in line j of lines stands for.
ExplicitAsSelected(f, lines, j) ==
    \A sel \in Range(Tail(split_ascii_whitespace(lines[j]))) :
        LET name == split_type_name(sel)[1]
        IN  /\ name \in DOMAIN f.records
            /\ SelectedTokens(Corpus, f, name) = DeclaredTokens(lines, sel)

ImplicitAdded(f, lines, j) ==
    /\ DOMAIN f.records = ReachFrom(Corpus, f, ExplicitNames(lines[j]))
    /\ \A name \in DOMAIN f.records \ ExplicitNames(lines[j]) : f.records[name] = 0

ImplicitSingle(f, lines, j) ==
    \A name \in DOMAIN f.records \ ExplicitNames(lines[j]) : Len(types[name]) = 1

FileOfRecord(i, lines, j) ==
    /\ files[i].path = SubSeq(FirstWord(lines[j]), 3, Len(FirstWord(lines[j])))
    /\ ExplicitAsSelected(files[i], lines, j)
    /\ ImplicitAdded(files[i], lines, j)

\* After a load that returned Ok every F# record has its file.
RecordsAsListed ==
    (main = "loaded" /\ load_result.kind = "Ok") =>
        \A k \in 1..Len(symfiles) : \A j \in FileRecordLines(symfiles[k].lines) :
            \E i \in 1..Len(files) : FileOfRecord(i, symfiles[k].lines, j)

C25_ImplicitRecords ==
    /\ RecordsAsListed
    /\ (main = "loaded" /\ load_result.kind = "Ok") =>
          \A k \in 1..Len(symfiles) : \A j \in FileRecordLines(symfiles[k].lines) :
              \E i \in 1..Len(files) :
                  /\ FileOfRecord(i, symfiles[k].lines, j)
                  /\ ImplicitSingle(files[i], symfiles[k].lines, j)

\* ---------------------------------------------------------------------
\* C27: on type graphs with cycles, a type that references itself
\* included, consolidate_type, compare_types and extrapolate_file_record
\* come to an end, and within one walk the tokens of a type name are
\* expanded at most once.

NoRepeat(s) == \A i \in 1..Len(s) : \A j \in 1..Len(s) : s[i] = s[j] => i = j

\* The names that reference one another in a cycle in the file of corpus c.
OnCycle(c) ==
    {name \in DOMAIN c.files[1].records :
        \E m \in TypeRefs(SelectedTokens(c, c.files[1], name)) :
            name \in ReachFrom(c, c.files[1], {m})}

C27_WalksEndExpandingOnce ==
    (call # None /\ ret # None) =>
        /\ ret.res.kind = "Ok"
        /\ NoRepeat(ret.expanded)
        /\ Range(ret.expanded) = ReachFrom(call.corpus, call.corpus.files[1], {call.name})
              \/ call.fn = "compare_types"
        /\ call.fn = "compare_types" =>
              /\ call.name \in Range(ret.expanded)
              /\ Range(ret.expanded) \subseteq
                    ReachFrom(call.corpus, call.corpus.files[1], {call.name})

\* extrapolate_file_record has returned from a name on a cycle of two
\* types after it expanded each of the names it reaches once.
C27_Witness ==
    /\ call # None
    /\ ret # None
    /\ call.name \in OnCycle(call.corpus)
    /\ Len(ret.expanded) = Cardinality(ReachFrom(call.corpus, call.corpus.files[1],
                                                 {call.name}))
    /\ call.fn = "extrapolate_file_record"
    /\ Cardinality(OnCycle(call.corpus)) = 2

\* ---------------------------------------------------------------------
\* C21: every run of ksymtypes ends with exit code 0 on success and with 1
\* on any usage or runtime error; a compare command given a number of
\* operands other than two is such an error, and so is a comparison whose
\* writing fails.

Exited == call # None /\ call.fn = "main" /\ ret # None /\ ret.pc = "exit"

IsCompareRun == call.args # << >> /\ Head(call.args) = aCompare

C21_ExitCodes ==
    Exited =>
        /\ ret.exit \in {0, 1}
        /\ (IsCompareRun /\ ret.stage \in {"load", "write"} /\ Len(ret.paths) # 2)
              => ret.exit = 1
        /\ (IsCompareRun /\ ret.stage = "write" /\ ~call.env.write_ok)
              => ret.exit = 1
        /\ (~IsCompareRun /\ ret.stage = "write" /\ ~call.env.write_ok)
              => ret.exit = 1

\* ---------------------------------------------------------------------
\* C24: during a load no worker ever holds more than one of the three
\* locks (types, exports, files) at the same time, whether its file loads
\* or fails; hence no interleaving deadlocks, and every load comes to the
\* join of its workers in the end.

OneLockAtMost == \A w \in Workers : Cardinality(locks[w].held) <= 1

C24_OneLockAndReturn == []OneLockAtMost /\ <>(main = "loaded")

\* A worker that has left the block of the exports guard with a duplicate
\* holds the files lock while the other worker waits for that lock.
C24_Witness ==
    \E w \in Workers : \E v \in Workers \ {w} :
        /\ locks[w].at = "duplicate"
        /\ locks[w].held = {"files"}
        /\ workers[v].pc = "load"
        /\ Wanted(v) = {"files"}
        /\ locks[v].held = {}

====
